---- MODULE Spec2Model ----
(***************************************************************************)
(* Model of the inventory / forecast analytics core of demandsense-ai:     *)
(*   server/inventory-calculator.js  (classifyABC, calculateOptimalOrder)  *)
(*   routes/api/inventory.js         (POST /optimize)                      *)
(*   routes/api/scenarios.js         (demand-shock, promotion, impact)     *)
(*   server/seasonality-utils.js     (detectSeasonality, applySeasonality) *)
(*                                                                         *)
(* The functions are pure apart from the objects they annotate, so every   *)
(* component is a small machine: Init draws the arguments of one call from *)
(* bounded sets, one action per function or route applies it.  JavaScript  *)
(* numbers are modelled as exact rationals (a pair n/d in lowest terms);   *)
(* NaN and the infinities of a division by zero are handled where the code *)
(* can produce them.  Binary floating-point rounding is modelled where it *)
(* decides a result (the mean of a constant series), and not elsewhere.    *)
(***************************************************************************)
EXTENDS Integers, Sequences, FiniteSets, TLC

VARIABLES
    items,          \* classifyABC: the caller's item objects (annotated in place)
    classified,     \* classifyABC: the returned array, or NotCalled
    reclassified,   \* classifyABC applied to that array: the returned array, or NotCalled
    orderArgs,      \* calculateOptimalOrder / POST /optimize: the arguments
    orderResult,    \* calculateOptimalOrder / POST /optimize: the result
    baseForecast,   \* scenarios: the caller's forecast array (req.body.baseForecast.forecast)
    scenarioReq,    \* scenarios: the rest of the request / call arguments
    scenarioRes,    \* scenarios: the response / return value, or NotCalled
    series,         \* detectSeasonality: the data argument
    seasonality,    \* detectSeasonality: the return value, or NotCalled
    periodicity,    \* checkPeriodicity called directly: lag, unit and result, or NotCalled
    healthArgs,     \* stock formulas / health metrics: the function called and its arguments
    healthResult,   \* stock formulas / health metrics: the result, or NotCalled
    catalog,        \* products routes: the in-memory products array
    productRequests, \* products routes: the number of requests served
    productRes,     \* products routes: the last response, or NotCalled
    forecastCache,  \* generateForecast: the forecastCache Map, by key
    forecastSessions, \* forecast routes: the forecastSessions Map, by session id
    calls,          \* generateForecast: the calls, each with its position and outcome
    now,            \* generateForecast: Date.now(), in milliseconds
    component       \* which component the caller exercises

vars == <<items, classified, reclassified, orderArgs, orderResult, baseForecast, scenarioReq,
          scenarioRes, series, seasonality, periodicity, healthArgs, healthResult,
          catalog, productRequests, productRes, forecastCache, forecastSessions, calls,
          now, component>>

abcVars == <<items, classified, reclassified>>
orderVars == <<orderArgs, orderResult>>
scenarioVars == <<baseForecast, scenarioReq, scenarioRes>>
seasonVars == <<series, seasonality, periodicity>>
healthVars == <<healthArgs, healthResult>>
productVars == <<catalog, productRequests, productRes>>
forecastVars == <<forecastCache, forecastSessions, calls, now>>

\* what a call of one component leaves alone
ABCFrame == UNCHANGED <<orderVars, scenarioVars, seasonVars, healthVars, productVars, forecastVars,
                        component>>

OrderFrame == UNCHANGED <<abcVars, scenarioVars, seasonVars, healthVars, productVars, forecastVars,
                        component>>

ScenarioFrame == UNCHANGED <<abcVars, orderVars, seasonVars, healthVars, productVars, forecastVars,
                        component>>

SeasonFrame == UNCHANGED <<abcVars, orderVars, scenarioVars, healthVars, productVars, forecastVars,
                        component>>

HealthFrame == UNCHANGED <<abcVars, orderVars, scenarioVars, seasonVars, productVars,
                           forecastVars, component>>

ProductsFrame == UNCHANGED <<abcVars, orderVars, scenarioVars, seasonVars, healthVars,
                             forecastVars, component>>

ForecastFrame == UNCHANGED <<abcVars, orderVars, scenarioVars, seasonVars, healthVars,
                             productVars, component>>

\* a result variable before the call, after a return, and after a throw
NotCalled == [called |-> FALSE]

Returned(v) == [called |-> TRUE, value |-> v]

Threw(e) == [called |-> TRUE, threw |-> e]

HasReturned(r) == r.called /\ "value" \in DOMAIN r

HasThrown(r) == r.called /\ "threw" \in DOMAIN r

Undefined == "undefined"

\* the date of a record that new Date() cannot parse
InvalidDate == -1

-----------------------------------------------------------------------------
(* Exact arithmetic on JavaScript numbers                                  *)

Abs(x) == IF x < 0 THEN -x ELSE x

Max(a, b) == IF a >= b THEN a ELSE b

Min(a, b) == IF a <= b THEN a ELSE b

RECURSIVE GCD(_, _)
GCD(a, b) == IF b = 0 THEN a ELSE GCD(b, a % b)

\* the number n/d (d # 0) in lowest terms with a positive denominator
Rat(n, d) ==
    LET s == IF d < 0 THEN -1 ELSE 1
        g == GCD(Abs(n), Abs(d))
    IN  [n |-> (s * n) \div g, d |-> (s * d) \div g]

Num(k) == [n |-> k, d |-> 1]

RAdd(x, y) == Rat(x.n * y.d + y.n * x.d, x.d * y.d)

RSub(x, y) == Rat(x.n * y.d - y.n * x.d, x.d * y.d)

RMul(x, y) == Rat(x.n * y.n, x.d * y.d)

RLt(x, y) == x.n * y.d < y.n * x.d

RLe(x, y) == x.n * y.d <= y.n * x.d

RDiv(x, y) == Rat(x.n * y.d, x.d * y.n)

RMax(x, y) == IF RLt(x, y) THEN y ELSE x

RMin(x, y) == IF RLt(y, x) THEN y ELSE x

\* Math.round: the nearest integer, a tie going towards +Infinity
MathRound(x) == (2 * x.n + x.d) \div (2 * x.d)

\* s[1] + ... + s[k]
RECURSIVE SumTo(_, _)
SumTo(s, k) == IF k = 0 THEN 0 ELSE SumTo(s, k - 1) + s[k]

SumSeq(s) == SumTo(s, Len(s))

\* s[lo] + ... + s[hi], summed by halves to keep the evaluation shallow
RECURSIVE RSumRange(_, _, _)
RSumRange(s, lo, hi) ==
    IF lo > hi THEN Num(0)
    ELSE IF lo = hi THEN s[lo]
    ELSE LET mid == (lo + hi) \div 2
         IN  RAdd(RSumRange(s, lo, mid), RSumRange(s, mid + 1, hi))

RSumSeq(s) == RSumRange(s, 1, Len(s))

\* all sequences over S of length 0..n
SeqsUpTo(S, n) == UNION {[1..k -> S] : k \in 0..n}

-----------------------------------------------------------------------------
(* InventoryCalculator.classifyABC                                         *)

MaxItems == 4
ItemValues == {-1, 0, 1, 3, 16}
NoClass == "none"

\* item objects as the caller builds them: id is the object's identity
MkItems(vals) == [i \in 1..Len(vals) |-> [id |-> i, annualValue |-> vals[i], class |-> NoClass]]

\* Array.prototype.sort with (a, b) => b.annualValue - a.annualValue: stable, descending
RECURSIVE InsertDesc(_, _)
InsertDesc(sorted, item) ==
    IF sorted = <<>> THEN <<item>>
    ELSE IF Head(sorted).annualValue >= item.annualValue
         THEN <<Head(sorted)>> \o InsertDesc(Tail(sorted), item)
         ELSE <<item>> \o sorted

RECURSIVE SortDesc(_)
SortDesc(s) ==
    IF s = <<>> THEN <<>>
    ELSE InsertDesc(SortDesc(SubSeq(s, 1, Len(s) - 1)), s[Len(s)])

\* faulty variant: a share of a total of 0 counts as 0
ShareLeqZeroShare(cumulative, totalValue, num, den) ==
    IF totalValue > 0 THEN cumulative * den <= num * totalValue
    ELSE IF totalValue < 0 THEN cumulative * den >= num * totalValue
    ELSE TRUE

\* cumulative / totalValue <= num / den as JavaScript evaluates it:
\* x/0 is NaN (0/0), +Infinity or -Infinity, and only -Infinity compares <=
ShareLeq(cumulative, totalValue, num, den) ==
    IF totalValue > 0 THEN cumulative * den <= num * totalValue
    ELSE IF totalValue < 0 THEN cumulative * den >= num * totalValue
    ELSE cumulative < 0

\* faulty variant: the last branch tests percentage <= 1, so NaN and Infinity get no class
ClassOfBounded(cumulative, totalValue) ==
    IF ShareLeq(cumulative, totalValue, 8, 10) THEN "A"
    ELSE IF ShareLeq(cumulative, totalValue, 95, 100) THEN "B"
    ELSE IF ShareLeq(cumulative, totalValue, 1, 1) THEN "C"
    ELSE NoClass

\* faulty variant: the thresholds are compared with < instead of <=
ClassOfStrict(cumulative, totalValue) ==
    IF ShareLeq(cumulative, totalValue, 8, 10) /\ cumulative * 10 # 8 * totalValue THEN "A"
    ELSE IF ShareLeq(cumulative, totalValue, 95, 100) /\ cumulative * 100 # 95 * totalValue
    THEN "B"
    ELSE "C"

ClassOf(cumulative, totalValue) ==
    IF ShareLeq(cumulative, totalValue, 8, 10) THEN "A"
    ELSE IF ShareLeq(cumulative, totalValue, 95, 100) THEN "B"
    ELSE "C"

Cumulative(sorted, k) == SumSeq([i \in 1..k |-> sorted[i].annualValue])

\* faulty variant: the items are ranked in ascending order of value
classifyABCAscending(its) ==
    LET descending == SortDesc(its)
        sorted == [k \in 1..Len(its) |-> descending[Len(its) + 1 - k]]
        totalValue == Cumulative(sorted, Len(sorted))
    IN  [k \in 1..Len(sorted) |->
            [sorted[k] EXCEPT !.class = ClassOf(Cumulative(sorted, k), totalValue)]]

\* faulty variant: the sort is not stable, items of equal value come out in
\* the reverse of their input order
classifyABCUnstable(its) ==
    LET sorted == SortDesc([i \in 1..Len(its) |-> its[Len(its) + 1 - i]])
        totalValue == Cumulative(sorted, Len(sorted))
    IN  [k \in 1..Len(sorted) |->
            [sorted[k] EXCEPT !.class = ClassOf(Cumulative(sorted, k), totalValue)]]

\* the returned array: the sorted item objects, each with item.class assigned
classifyABC(its) ==
    LET sorted == SortDesc(its)
        totalValue == Cumulative(sorted, Len(sorted))
    IN  [k \in 1..Len(sorted) |->
            [sorted[k] EXCEPT !.class = ClassOf(Cumulative(sorted, k), totalValue)]]

\* the caller's array after the call: same order, the objects now carry the class
AnnotatedInPlace(its, result) ==
    [i \in 1..Len(its) |->
        IF \E j \in 1..Len(result) : result[j].id = its[i].id
        THEN result[CHOOSE j \in 1..Len(result) : result[j].id = its[i].id]
        ELSE its[i]]

InitABC ==
    /\ items \in {MkItems(vals) : vals \in SeqsUpTo(ItemValues, MaxItems)}
    /\ classified = NotCalled
    /\ reclassified = NotCalled

ClassifyABC ==
    /\ component = "abc"
    /\ ~classified.called
    /\ classified' = Returned(classifyABC(items))
    /\ items' = AnnotatedInPlace(items, classifyABC(items))
    /\ UNCHANGED reclassified
    /\ ABCFrame

\* classifyABC(classified): the second application, to the array the first
\* one returned; it assigns item.class on the same objects again
Reclassify ==
    /\ component = "abc"
    /\ classified.called
    /\ ~reclassified.called
    /\ reclassified' = Returned(classifyABC(classified.value))
    /\ classified' = Returned(AnnotatedInPlace(classified.value,
                                               classifyABC(classified.value)))
    /\ items' = AnnotatedInPlace(items, classifyABC(classified.value))
    /\ ABCFrame

-----------------------------------------------------------------------------
(* InventoryCalculator.calculateOptimalOrder and POST /api/inventory/optimize *)

MaxForecast == 8
MaxProducts == 2
MaxProductForecast == 2
SliceEnd == 7
DefaultReorderPoint == 50
DefaultMaxStock == 500
PredictedValues == {0, 3}
StockValues == {0, 1, 3, 6, 13}
ReorderValues == {0, 4, 12, 50}
MaxStockValues == {0, 5, 200}

\* faulty variant: the slice is dropped and the whole forecast is summed
ForecastedDemandAll(forecast) ==
    SumSeq([i \in 1..Len(forecast) |-> forecast[i].predicted])

\* forecast.slice(0, 7).reduce((sum, f) => sum + f.predicted, 0)
ForecastedDemand(forecast) ==
    SumSeq([i \in 1..Min(SliceEnd, Len(forecast)) |-> forecast[i].predicted])

\* urgent: currentStock < reorderPoint * 0.5
Urgent(currentStock, reorderPoint) ==
    RLt(Num(currentStock), RMul(Num(reorderPoint), Rat(1, 2)))

\* faulty variant: the critical threshold is 0.75 of the reorder point
CriticalWide(currentStock, reorderPoint) ==
    RLt(Num(currentStock), RMul(Num(reorderPoint), Rat(3, 4)))

\* critical: currentStock < reorderPoint * 0.25
Critical(currentStock, reorderPoint) ==
    RLt(Num(currentStock), RMul(Num(reorderPoint), Rat(1, 4)))

\* faulty variant: Math.max in place of Math.min
FinalOrderMax(adjustedOrder, currentStock, maxStock) ==
    RMax(adjustedOrder, Num(maxStock - currentStock))

\* const finalOrder = Math.min(adjustedOrder, maxStock - currentStock)
FinalOrder(adjustedOrder, currentStock, maxStock) ==
    RMin(adjustedOrder, Num(maxStock - currentStock))

calculateOptimalOrder(forecast, currentStock, reorderPoint, maxStock) ==
    LET recommendedOrder == Max(0, reorderPoint - currentStock)
        forecastedDemand == ForecastedDemand(forecast)
        adjustedOrder == RMax(Num(recommendedOrder),
                              RMul(Num(forecastedDemand), Rat(12, 10)))
        finalOrder == FinalOrder(adjustedOrder, currentStock, maxStock)
    IN  [recommended |-> MathRound(Num(recommendedOrder)),
         adjusted |-> MathRound(adjustedOrder),
         final |-> Max(0, MathRound(finalOrder)),
         urgent |-> Urgent(currentStock, reorderPoint),
         critical |-> Critical(currentStock, reorderPoint)]

\* x || dflt on a number: 0 is falsy
OrDefault(x, dflt) == IF x = 0 THEN dflt ELSE x

\* optimalOrders of POST /optimize: one entry per product, in order
OptimalOrders(products, forecast) ==
    [i \in 1..Len(products) |->
        LET product == products[i]
            matches(f) == f.product_id = product.id
            productForecast == SelectSeq(forecast, matches)
            o == calculateOptimalOrder(productForecast,
                                       OrDefault(product.current_stock, 0),
                                       OrDefault(product.reorder_point, DefaultReorderPoint),
                                       OrDefault(product.max_stock, DefaultMaxStock))
        IN  [product_id |-> product.id, recommended |-> o.recommended,
             adjusted |-> o.adjusted, final |-> o.final,
             urgent |-> o.urgent, critical |-> o.critical]]

\* the summary of POST /optimize (the fields the order engine feeds);
\* optimalOrders.filter(o => o.urgent).length counts the urgent entries
OptimizeSummary(products, optimalOrders) ==
    [totalProducts |-> Len(products),
     totalStock |-> SumSeq([i \in 1..Len(products) |-> products[i].current_stock]),
     urgentOrders |-> Cardinality({i \in 1..Len(optimalOrders) : optimalOrders[i].urgent}),
     criticalOrders |->
         Cardinality({i \in 1..Len(optimalOrders) : optimalOrders[i].critical})]

\* the product objects of a request: the first is p1, the others p2
ProductChoices == [current_stock : {0, 3, 13}, reorder_point : {0, 4, 50}, max_stock : {0, 5}]

MkProducts(ps) ==
    [i \in 1..Len(ps) |->
        [id |-> IF i = 1 THEN "p1" ELSE "p2", current_stock |-> ps[i].current_stock,
         reorder_point |-> ps[i].reorder_point, max_stock |-> ps[i].max_stock]]

ProductForecastPoints == [product_id : {"p1", Undefined}, predicted : {3}]

InitOrder ==
    /\ orderResult = NotCalled
    /\ \/ orderArgs \in [kind : {"call"},
                         forecast : SeqsUpTo([predicted : PredictedValues], MaxForecast),
                         currentStock : StockValues,
                         reorderPoint : ReorderValues,
                         maxStock : MaxStockValues]
       \/ orderArgs \in [kind : {"optimize"},
                         products : {MkProducts(ps) : ps \in SeqsUpTo(ProductChoices, MaxProducts)},
                         forecast : SeqsUpTo(ProductForecastPoints, MaxProductForecast)]

\* a direct call of inventoryCalculator.calculateOptimalOrder
CalculateOptimalOrder ==
    /\ component = "order"
    /\ orderArgs.kind = "call"
    /\ ~orderResult.called
    /\ orderResult' = Returned(calculateOptimalOrder(orderArgs.forecast,
                                                      orderArgs.currentStock,
                                                      orderArgs.reorderPoint,
                                                      orderArgs.maxStock))
    /\ UNCHANGED orderArgs
    /\ OrderFrame

\* POST /api/inventory/optimize with an array of products
Optimize ==
    /\ component = "order"
    /\ orderArgs.kind = "optimize"
    /\ ~orderResult.called
    /\ LET optimalOrders == OptimalOrders(orderArgs.products, orderArgs.forecast)
       IN  orderResult' = Returned([success |-> TRUE,
                                    optimalOrders |-> optimalOrders,
                                    summary |-> OptimizeSummary(orderArgs.products,
                                                                optimalOrders)])
    /\ UNCHANGED orderArgs
    /\ OrderFrame


-----------------------------------------------------------------------------
(* routes/api/scenarios.js: /demand-shock, /promotion, calculateScenarioImpact, *)
(* calculateRiskLevel; SeasonalityUtils.applySeasonality                        *)

MaxPoints == 2
DefaultDuration == 7
DefaultPromotionDuration == 3

Point(date, predicted, upper, lower) ==
    [date |-> date, predicted |-> Num(predicted), upper_bound |-> Num(upper),
     lower_bound |-> Num(lower)]

\* the shapes a forecast point takes: <<predicted, upper_bound, lower_bound>>
PointShapes == {<<100, 120, 80>>, <<0, 0, 0>>, <<3, 5, 1>>}

\* a forecast: one point per day, day i-1 at index i
MkForecast(shapes) ==
    [i \in 1..Len(shapes) |-> Point(i - 1, shapes[i][1], shapes[i][2], shapes[i][3])]

\* the 30-point flat forecast of 100 of the scenario tests
FlatForecast == [i \in 1..30 |-> Point(i - 1, 100, 100, 100)]

Forecasts == {MkForecast(sh) : sh \in SeqsUpTo(PointShapes, MaxPoints)} \cup {FlatForecast}

\* the routes take the multiplier from the body as it is, negative ones too
Multipliers ==
    {Num(-1), Num(0), Rat(1, 2), Num(1), Rat(6, 5), Rat(13, 10), Rat(3, 2), Rat(8, 5),
     Num(2), Rat(5, 2)}

Durations == {0, 1, 2, 7}

\* { ...item, predicted: item.predicted * m, upper_bound: ..., lower_bound: ..., <tag>: m }
Scaled(item, m, tag) ==
    (tag :> m) @@ [item EXCEPT !.predicted = RMul(item.predicted, m),
                               !.upper_bound = RMul(item.upper_bound, m),
                               !.lower_bound = RMul(item.lower_bound, m)]

\* faulty variant: index <= duration
ImpactedForecastInclusive(forecast, multiplier, duration) ==
    [i \in 1..Len(forecast) |->
        IF i - 1 <= duration THEN Scaled(forecast[i], multiplier, "scenario_impact")
        ELSE forecast[i]]

\* baseForecast.forecast.map((item, index) => index < duration ? {...} : item)
ImpactedForecast(forecast, multiplier, duration) ==
    [i \in 1..Len(forecast) |->
        IF i - 1 < duration THEN Scaled(forecast[i], multiplier, "scenario_impact")
        ELSE forecast[i]]

\* faulty variant: the items are scaled in place (forEach with item.predicted *= multiplier)
DemandShockEffectInPlace(forecast, multiplier, duration) ==
    [caller |-> ImpactedForecast(forecast, multiplier, duration),
     response |-> ImpactedForecast(forecast, multiplier, duration)]

\* what POST /demand-shock leaves in the caller's array and puts in the response
DemandShockEffect(forecast, multiplier, duration) ==
    [caller |-> forecast,
     response |-> ImpactedForecast(forecast, multiplier, duration)]

PromotionImpact(forecast, lift, duration) ==
    [i \in 1..Len(forecast) |->
        IF i - 1 < duration THEN Scaled(forecast[i], lift, "promotion_lift")
        ELSE forecast[i]]

\* what POST /promotion leaves in the caller's array and puts in the response
PromotionEffect(forecast, lift, duration) ==
    [caller |-> forecast,
     response |-> PromotionImpact(forecast, lift, duration)]

\* a destructuring default: used only when the field is absent (undefined)
FieldOr(req, field, dflt) == IF field \in DOMAIN req THEN req[field] ELSE dflt

\* Math.round((multiplier - 1) * 100)
PercentOf(multiplier) == MathRound(RMul(RSub(multiplier, Num(1)), Num(100)))

(* calculateScenarioImpact *)

Falsy(x) == x.n = 0

\* scenario.parameters.multiplier || dflt
MultiplierOr(parameters, dflt) ==
    IF "multiplier" \in DOMAIN parameters /\ ~Falsy(parameters.multiplier)
    THEN parameters.multiplier ELSE dflt

\* faulty variant: the multiplier is read before the type is looked at
ReadsParametersAlways(scenario) == TRUE

\* reading scenario.parameters.multiplier throws when parameters is undefined
ReadsParameters(scenario) == scenario.type \in {"demand_shock", "promotion"}

ImpactMultiplier(scenario) ==
    IF scenario.type = "demand_shock" THEN MultiplierOr(scenario.parameters, Rat(3, 2))
    ELSE IF scenario.type = "promotion" THEN MultiplierOr(scenario.parameters, Num(2))
    ELSE Num(1)

\* baseForecast.forecast?.reduce((sum, f) => sum + (f.predicted || 0), 0) || 0
TotalDemand(forecast) == RSumSeq([i \in 1..Len(forecast) |-> forecast[i].predicted])

Severity(impactMultiplier) ==
    IF RLt(Rat(3, 2), impactMultiplier) THEN "high"
    ELSE IF RLt(Rat(6, 5), impactMultiplier) THEN "medium"
    ELSE "low"

calculateScenarioImpact(forecast, scenario) ==
    IF ReadsParameters(scenario) /\ "parameters" \notin DOMAIN scenario
    THEN Threw("TypeError")
    ELSE LET impactMultiplier == ImpactMultiplier(scenario)
         IN  Returned([totalDemandImpact |->
                           MathRound(RMul(TotalDemand(forecast),
                                          RSub(impactMultiplier, Num(1)))),
                       percentageChange |-> PercentOf(impactMultiplier),
                       productsAffected |-> 0,
                       severity |-> Severity(impactMultiplier)])

calculateRiskLevel(scenario) ==
    IF scenario.type = "supply_disruption" THEN Returned("high")
    ELSE IF scenario.type = "demand_shock"
    THEN IF "parameters" \notin DOMAIN scenario THEN Threw("TypeError")
         ELSE IF "multiplier" \in DOMAIN scenario.parameters
                 /\ RLt(Num(2), scenario.parameters.multiplier)
              THEN Returned("high") ELSE Returned("low")
    ELSE IF scenario.type = "promotion" THEN Returned("medium")
    ELSE Returned("low")

(* SeasonalityUtils.applySeasonality *)

\* new Date(item.date).getDay(): day 0 of the model's calendar is a Sunday
GetDay(date) == date % 7

\* seasonality.dayOfWeekPattern.averages[dayOfWeek]?.average || 1
DayAverage(averages, dayOfWeek) ==
    IF Falsy(averages[dayOfWeek + 1]) THEN Num(1) ELSE averages[dayOfWeek + 1]

OverallAvg(averages) == RDiv(RSumSeq(averages), Num(7))

SeasonalFactor(averages, dayOfWeek) ==
    IF RLt(Num(0), OverallAvg(averages))
    THEN RDiv(DayAverage(averages, dayOfWeek), OverallAvg(averages))
    ELSE Num(1)

\* !seasonality?.detected || !seasonality?.dayOfWeekPattern
NoPattern(seas) ==
    \/ "detected" \notin DOMAIN seas
    \/ ~seas.detected
    \/ "dayOfWeekPattern" \notin DOMAIN seas

SeasonalItem(item, factor) ==
    ("seasonal_factor" :> Rat(MathRound(RMul(factor, Num(100))), 100))
        @@ [item EXCEPT !.predicted = RMul(item.predicted, factor),
                        !.upper_bound = RMul(item.upper_bound, factor),
                        !.lower_bound = RMul(item.lower_bound, factor)]

applySeasonality(forecast, seas) ==
    IF NoPattern(seas) THEN forecast
    ELSE [i \in 1..Len(forecast) |->
            SeasonalItem(forecast[i],
                         SeasonalFactor(seas.dayOfWeekPattern.averages,
                                        GetDay(forecast[i].date)))]

\* what applySeasonality leaves in the caller's array and returns
ApplySeasonalityEffect(forecast, seas) ==
    [caller |-> forecast, response |-> applySeasonality(forecast, seas)]

Profile(avgs) == [averages |-> [i \in 1..7 |-> Num(avgs[i])]]

Seasonalities ==
    {[undefined |-> TRUE],
     [detected |-> FALSE],
     [detected |-> TRUE, pattern |-> "monthly"],
     [detected |-> TRUE, pattern |-> "weekly",
      dayOfWeekPattern |-> Profile(<<2, 1, 1, 1, 1, 1, 0>>)],
     [detected |-> TRUE, pattern |-> "weekly",
      dayOfWeekPattern |-> Profile(<<0, 0, 0, 0, 0, 0, 0>>)],
     [detected |-> TRUE, pattern |-> "weekly",
      dayOfWeekPattern |-> Profile(<<3, 6, 6, 6, 6, 6, 9>>)]}

(* ForecastLogic.createFallbackForecast *)

MaxHistory == 2
ForecastDays == 30
WindowSize == 7

\* parseFloat(row.sales || row.Sales || row.quantity || 0)
HistoricalValue(row) ==
    IF "sales" \in DOMAIN row /\ row.sales # 0 THEN row.sales
    ELSE IF "quantity" \in DOMAIN row /\ row.quantity # 0 THEN row.quantity
    ELSE 0

\* aggregateHistoricalData: the rows with a date, summed per date and sorted
\* by date (the caller has checked that every date parses)
aggregateHistoricalData(data) ==
    LET dated == {i \in 1..Len(data) : "date" \in DOMAIN data[i]}
        dates == {data[i].date : i \in dated}
        dateAt(k) == CHOOSE d \in dates : Cardinality({x \in dates : x < d}) = k - 1
    IN  [k \in 1..Cardinality(dates) |->
            [date |-> dateAt(k),
             sales |-> SumSeq([i \in 1..Len(data) |->
                                 IF i \in dated /\ data[i].date = dateAt(k)
                                 THEN HistoricalValue(data[i]) ELSE 0])]]

\* one forecast point: lastAvg plus a variation of at most 5 %, drawn with
\* Math.random(), and the bounds 15 % above and below, all rounded to cents
FallbackPoint(date, lastAvg, random) ==
    LET variation == RMul(RMul(RSub(random, Rat(1, 2)), lastAvg), Rat(1, 10))
        predicted == RAdd(lastAvg, variation)
    IN  [date |-> date,
         predicted |-> Rat(MathRound(RMul(predicted, Num(100))), 100),
         upper_bound |-> Rat(MathRound(RMul(RMul(predicted, Rat(115, 100)), Num(100))), 100),
         lower_bound |-> Rat(MathRound(RMul(RMul(predicted, Rat(85, 100)), Num(100))), 100)]

\* createFallbackForecast(data); randoms[i] is the value Math.random() returns
\* for point i.  toISOString() throws on a date that does not parse, and
\* historical[historical.length - 1].date throws when no row has a date.
createFallbackForecast(data, randoms) ==
    IF \E i \in 1..Len(data) : "date" \in DOMAIN data[i] /\ data[i].date = InvalidDate
    THEN Threw("RangeError")
    ELSE LET historical == aggregateHistoricalData(data)
             windowSize == Min(WindowSize, Len(historical))
             lastAvg == Rat(SumSeq([k \in 1..windowSize |->
                                      historical[Len(historical) - windowSize + k].sales]),
                            windowSize)
         IN  IF Len(historical) = 0 THEN Threw("TypeError")
             ELSE Returned(
                     [forecast |-> [i \in 1..ForecastDays |->
                                      FallbackPoint(historical[Len(historical)].date + i,
                                                    lastAvg, randoms[i])],
                      confidence |-> Rat(3, 4)])

\* the values Math.random() returns, from [0, 1)
RandomValues == {Num(0), Rat(1, 2), Rat(999, 1000)}

\* the draws of one call: Math.random() is called once per point; the points
\* with an odd index share one drawn value and those with an even index another
RandomDraws ==
    {[i \in 1..ForecastDays |-> IF i % 2 = 1 THEN odd ELSE even] :
        odd \in RandomValues, even \in RandomValues}

\* the rows of the historical data
HistoryRows ==
    {[date |-> 1, sales |-> 10],
     [date |-> 2, sales |-> 3],
     [date |-> 2, quantity |-> 4],
     [date |-> 3, sales |-> 0],
     [sales |-> 5],
     [date |-> InvalidDate, sales |-> 2]}

(* WhatIfPanel.runScenario and POST /api/scenarios/analyze *)

\* the data-scenario values of the four tabs
PanelTabs == {"demand", "supply", "promotion", "custom"}

\* positions of the demandMultiplier and promotionLift sliders, in percent
SliderValues == {0, 10, 50, 100}

\* this.currentScenario: the type is the tab's data-scenario value, the
\* parameters are read from the tab's sliders (the duration sliders are left
\* at their initial positions)
PanelScenario(tab, slider) ==
    [type |-> tab,
     parameters |->
        CASE tab = "demand" ->
                [multiplier |-> Rat(100 + slider, 100), duration |-> DefaultDuration]
          [] tab = "promotion" ->
                [multiplier |-> Rat(100 + slider, 100), duration |-> DefaultPromotionDuration]
          [] tab = "supply" ->
                [delayDays |-> 14, capacityReduction |-> Rat(30, 100)]
          [] OTHER -> <<>>]

ScenarioTypes ==
    {"demand_shock", "promotion", "supply_disruption", "custom", "demand-shock",
     "price_change"}

ParameterSets ==
    {[duration |-> DefaultDuration]}
        \cup {[multiplier |-> m, duration |-> DefaultDuration] : m \in Multipliers}

Scenarios ==
    [type : ScenarioTypes] \cup [type : ScenarioTypes, parameters : ParameterSets]

ScenarioRequests ==
    [route : {"/demand-shock"}]
        \cup [route : {"/demand-shock"}, multiplier : Multipliers]
        \cup [route : {"/demand-shock"}, duration : Durations]
        \cup [route : {"/demand-shock"}, multiplier : Multipliers, duration : Durations]
        \cup [route : {"/promotion"}]
        \cup [route : {"/promotion"}, lift : Multipliers]
        \cup [route : {"/promotion"}, duration : Durations]
        \cup [route : {"/promotion"}, lift : Multipliers, duration : Durations]
        \cup [route : {"applySeasonality"}, seasonality : Seasonalities]
        \cup [route : {"impact"}, scenario : Scenarios]
        \cup [route : {"runScenario"}, tab : PanelTabs, slider : SliderValues]
        \cup [route : {"createFallbackForecast"}, data : SeqsUpTo(HistoryRows, MaxHistory)]

\* createFallbackForecast takes no base forecast
InitScenario ==
    /\ baseForecast \in Forecasts
    /\ scenarioReq \in ScenarioRequests
    /\ scenarioReq.route = "createFallbackForecast" => baseForecast = <<>>
    /\ scenarioRes = NotCalled

\* POST /api/scenarios/demand-shock (no products in the body)
DemandShock ==
    /\ component = "scenario"
    /\ scenarioReq.route = "/demand-shock"
    /\ ~scenarioRes.called
    /\ LET multiplier == FieldOr(scenarioReq, "multiplier", Rat(3, 2))
           duration == FieldOr(scenarioReq, "duration", DefaultDuration)
           effect == DemandShockEffect(baseForecast, multiplier, duration)
       IN  /\ baseForecast' = effect.caller
           /\ scenarioRes' =
                Returned([success |-> TRUE,
                          scenario |-> [type |-> "demand_shock",
                                        parameters |-> [multiplier |-> multiplier,
                                                        duration |-> duration]],
                          forecast |-> effect.response,
                          demandIncrease |-> PercentOf(multiplier)])
    /\ UNCHANGED scenarioReq
    /\ ScenarioFrame

\* POST /api/scenarios/promotion (no products in the body)
Promotion ==
    /\ component = "scenario"
    /\ scenarioReq.route = "/promotion"
    /\ ~scenarioRes.called
    /\ LET lift == FieldOr(scenarioReq, "lift", Num(2))
           duration == FieldOr(scenarioReq, "duration", DefaultPromotionDuration)
           effect == PromotionEffect(baseForecast, lift, duration)
       IN  /\ baseForecast' = effect.caller
           /\ scenarioRes' =
                Returned([success |-> TRUE,
                          scenario |-> [type |-> "promotion",
                                        parameters |-> [multiplier |-> lift,
                                                        duration |-> duration]],
                          forecast |-> effect.response,
                          demandIncrease |-> PercentOf(lift)])
    /\ UNCHANGED scenarioReq
    /\ ScenarioFrame

\* seasonalityUtils.applySeasonality(forecast, seasonality)
ApplySeasonality ==
    /\ component = "scenario"
    /\ scenarioReq.route = "applySeasonality"
    /\ ~scenarioRes.called
    /\ LET effect == ApplySeasonalityEffect(baseForecast, scenarioReq.seasonality)
       IN  /\ baseForecast' = effect.caller
           /\ scenarioRes' = Returned([forecast |-> effect.response])
    /\ UNCHANGED scenarioReq
    /\ ScenarioFrame

\* forecastLogic.createFallbackForecast(data)
CreateFallbackForecast ==
    /\ component = "scenario"
    /\ scenarioReq.route = "createFallbackForecast"
    /\ ~scenarioRes.called
    /\ \E randoms \in RandomDraws :
         scenarioRes' = createFallbackForecast(scenarioReq.data, randoms)
    /\ UNCHANGED <<baseForecast, scenarioReq>>
    /\ ScenarioFrame

\* WhatIfPanel.runScenario: the panel posts its scenario to /api/scenarios/analyze,
\* which answers with the impact, or with an error when the AI call fails
RunScenario ==
    /\ component = "scenario"
    /\ scenarioReq.route = "runScenario"
    /\ ~scenarioRes.called
    /\ \E aiResponds \in BOOLEAN :
         scenarioRes' =
            LET scenario == PanelScenario(scenarioReq.tab, scenarioReq.slider)
            IN  IF aiResponds
                THEN Returned([success |-> TRUE,
                               scenario |-> scenario,
                               impact |-> calculateScenarioImpact(baseForecast, scenario).value])
                ELSE Returned([success |-> FALSE])
    /\ UNCHANGED <<baseForecast, scenarioReq>>
    /\ ScenarioFrame

\* calculateScenarioImpact(baseForecast, scenario, undefined)
CalculateScenarioImpact ==
    /\ component = "scenario"
    /\ scenarioReq.route = "impact"
    /\ ~scenarioRes.called
    /\ scenarioRes' = calculateScenarioImpact(baseForecast, scenarioReq.scenario)
    /\ UNCHANGED <<baseForecast, scenarioReq>>
    /\ ScenarioFrame

\* calculateRiskLevel(scenario)
CalculateRiskLevel ==
    /\ component = "scenario"
    /\ scenarioReq.route = "impact"
    /\ ~scenarioRes.called
    /\ scenarioRes' = LET r == calculateRiskLevel(scenarioReq.scenario)
                      IN  IF HasThrown(r) THEN r ELSE Returned([riskLevel |-> r.value])
    /\ UNCHANGED <<baseForecast, scenarioReq>>
    /\ ScenarioFrame


-----------------------------------------------------------------------------
(* SeasonalityUtils.detectSeasonality                                      *)

MaxSeries == 32
MinPoints == 30
WeeklyLag == 7
MonthlyLag == 30

\* parseFloat(d[valueField]) || 0: a record without the field reads as 0
ValueOf(d) == IF "sales" \in DOMAIN d THEN d.sales ELSE 0

\* new Date(a.date) - new Date(b.date) > 0; NaN (a missing date) never is
DateAfter(a, b) == "date" \in DOMAIN a /\ "date" \in DOMAIN b /\ a.date > b.date

\* [...data].sort((a, b) => new Date(a.date) - new Date(b.date)): stable, ascending
RECURSIVE InsertByDate(_, _)
InsertByDate(sorted, d) ==
    IF sorted = <<>> THEN <<d>>
    ELSE IF DateAfter(sorted[Len(sorted)], d)
         THEN InsertByDate(SubSeq(sorted, 1, Len(sorted) - 1), d) \o <<sorted[Len(sorted)]>>
         ELSE sorted \o <<d>>

RECURSIVE SortByDate(_)
SortByDate(s) ==
    IF s = <<>> THEN <<>>
    ELSE InsertByDate(SortByDate(SubSeq(s, 1, Len(s) - 1)), s[Len(s)])

\* values[i] - mean for every i, scaled by values.length so that the mean
\* needs no division (the quotient of the two sums below does not see the scale)
Deviations(values) ==
    LET n == Len(values)
        total == SumSeq(values)
    IN  [i \in 1..n |-> n * values[i] - total]

\* the two loops and the return of checkPeriodicity, over the deviations:
\* |sum dev[i] * dev[i+lag]| / sum dev[i]^2, and 0 when the denominator is 0
Autocorrelation(dev, lag) ==
    LET n == Len(dev)
        numerator == SumSeq([i \in 1..(n - lag) |-> dev[i] * dev[i + lag]])
        denominator == SumSeq([i \in 1..n |-> dev[i] * dev[i]])
    IN  IF denominator = 0 THEN Num(0) ELSE Rat(Abs(numerator), denominator)

\* checkPeriodicity on integer values, whose sum and deviations are exact
checkPeriodicity(values, lag) ==
    IF Len(values) <= lag THEN Num(0)
    ELSE Autocorrelation(Deviations(values), lag)

\* a number with a finite binary expansion: sums of a few of them are exact
Representable(x) == x.d \in {1, 2, 4, 8, 16, 32, 64}

IsConstant(values) == \A i \in 1..Len(values) : values[i] = values[1]

\* values.reduce((a, b) => a + b, 0) / values.length in binary floating
\* point: exact for representable values; for values such as 0.05 or 19.99
\* the quotient of three or more may or may not be off by a rounding error
\* (30 times 0.05: the mean is 0.049999999999999996)
MeanRoundings(values) ==
    IF Len(values) <= 2 \/ \A i \in 1..Len(values) : Representable(values[i])
    THEN {FALSE}
    ELSE BOOLEAN

\* the least common denominator of values[1..k]
RECURSIVE CommonDenominator(_, _)
CommonDenominator(values, k) ==
    IF k = 0 THEN 1
    ELSE LET m == CommonDenominator(values, k - 1)
         IN  (m * values[k].d) \div GCD(m, values[k].d)

\* checkPeriodicity on decimal values.  With meanRounded every deviation of
\* a constant series is the same non-zero rounding error e, so the loops sum
\* (n - lag) * e^2 and n * e^2; on a series that varies the error is
\* negligible against the deviations.
checkPeriodicityFloat(values, lag, meanRounded) ==
    IF Len(values) <= lag THEN Num(0)
    ELSE IF meanRounded /\ IsConstant(values)
    THEN Autocorrelation([i \in 1..Len(values) |-> -1], lag)
    ELSE LET m == CommonDenominator(values, Len(values))
         IN  Autocorrelation(
                 Deviations([i \in 1..Len(values) |-> values[i].n * (m \div values[i].d)]),
                 lag)

\* item.date || item.Date, then getDay(); NaN (no date) indexes nothing
DayOfWeekAverages(data) ==
    [k \in 1..7 |->
        LET onDay == {i \in 1..Len(data) :
                        "date" \in DOMAIN data[i] /\ GetDay(data[i].date) = k - 1}
            sum == SumSeq([j \in 1..Len(data) |-> IF j \in onDay THEN ValueOf(data[j]) ELSE 0])
        IN  IF onDay # {} THEN Rat(sum, Cardinality(onDay)) ELSE Num(0)]

\* the index (0..6) of the day the stable descending sort by average puts at position pos
RankedDay(averages, pos) ==
    CHOOSE k \in 0..6 :
        Cardinality({j \in 0..6 : \/ RLt(averages[k + 1], averages[j + 1])
                                  \/ (averages[j + 1] = averages[k + 1] /\ j < k)}) = pos

calculateWeekendEffect(averages) ==
    LET avgWeekday == RDiv(RSumSeq(SubSeq(averages, 2, 6)), Num(5))
        avgWeekend == RDiv(RAdd(averages[1], averages[7]), Num(2))
    IN  IF avgWeekday.n = 0 THEN Num(0)
        ELSE RDiv(RSub(avgWeekend, avgWeekday), avgWeekday)

calculateDayOfWeekAverages(data) ==
    LET averages == DayOfWeekAverages(data)
    IN  [averages |-> averages,
         peakDay |-> RankedDay(averages, 0),
         lowDay |-> RankedDay(averages, 6),
         weekendEffect |-> calculateWeekendEffect(averages)]

getRecommendation(pattern, strength) ==
    IF pattern = "null" THEN "No strong seasonal pattern detected"
    ELSE IF pattern = "weekly"
    THEN IF RLt(Rat(7, 10), strength) THEN "Strong weekly pattern detected"
         ELSE IF RLt(Rat(4, 10), strength) THEN "Moderate weekly pattern"
         ELSE "Weak weekly pattern"
    ELSE IF RLt(Rat(5, 10), strength) THEN "Monthly seasonality detected"
         ELSE "Slight monthly variation"

\* faulty variant: the guard is off by one
InsufficientDataOffByOne(data) == Len(data) < MinPoints - 1

\* if (data.length < 30) return { detected: false, reason: ... }
InsufficientData(data) == Len(data) < MinPoints

\* faulty variant: the stronger of the two periodicities wins
SeasonalPatternStrongest(weeklyStrength, monthlyStrength) ==
    IF RLt(Rat(3, 10), weeklyStrength) /\ ~RLt(weeklyStrength, monthlyStrength) THEN "weekly"
    ELSE IF RLt(Rat(2, 10), monthlyStrength) THEN "monthly"
    ELSE IF RLt(Rat(3, 10), weeklyStrength) THEN "weekly"
    ELSE "null"

\* if (weeklyStrength > 0.3) weekly; else if (monthlyStrength > 0.2) monthly;
\* pattern stays null otherwise
SeasonalPattern(weeklyStrength, monthlyStrength) ==
    IF RLt(Rat(3, 10), weeklyStrength) THEN "weekly"
    ELSE IF RLt(Rat(2, 10), monthlyStrength) THEN "monthly"
    ELSE "null"

detectSeasonality(data) ==
    IF InsufficientData(data)
    THEN [detected |-> FALSE, reason |-> "Insufficient data (need at least 30 points)"]
    ELSE LET sorted == SortByDate(data)
             values == [i \in 1..Len(sorted) |-> ValueOf(sorted[i])]
             weeklyStrength == checkPeriodicity(values, WeeklyLag)
             monthlyStrength == checkPeriodicity(values, MonthlyLag)
             pattern == SeasonalPattern(weeklyStrength, monthlyStrength)
             strength == IF pattern = "weekly" THEN weeklyStrength
                         ELSE IF pattern = "monthly" THEN monthlyStrength
                         ELSE Num(0)
             common == [detected |-> pattern # "null",
                        pattern |-> pattern,
                        strength |-> Rat(MathRound(RMul(strength, Num(100))), 100),
                        recommendation |-> getRecommendation(pattern, strength)]
         IN  IF pattern = "weekly"
             THEN ("dayOfWeekPattern" :> calculateDayOfWeekAverages(sorted)) @@ common
             ELSE common

\* the shapes of a series: the value on day t
ShapeValue(shape, t) ==
    CASE shape = "constant" -> 5
      [] shape = "weekly" -> IF t % 7 = 0 THEN 10 ELSE 1
      [] shape = "alternating" -> IF t % 2 = 0 THEN 4 ELSE 0
      [] shape = "ramp" -> t
      [] shape = "monthly" -> IF t % 30 = 0 THEN 10 ELSE 0
      [] shape = "both" -> IF t \in {0, 30} THEN 22
                           ELSE IF t \in {1, 31} THEN 2
                           ELSE IF t = 23 THEN 21
                           ELSE IF t = 24 THEN 3
                           ELSE 12
      [] OTHER -> 0

SeriesShapes == {"constant", "weekly", "alternating", "ramp", "monthly", "both", "malformed"}

\* the lags of the direct calls: 1, the two lags of detectSeasonality, and one
\* that is longer than every series
Lags == {1, WeeklyLag, MonthlyLag, MaxSeries + 8}

\* the values of a series are sales in whole units or in hundredths of a unit
Units == {1, 100}

\* n daily records of a shape, in chronological or in reverse order; the
\* malformed records have neither a date nor a numeric value
MkSeries(shape, n, reversed) ==
    [i \in 1..n |->
        LET t == IF reversed THEN n - i ELSE i - 1
        IN  IF shape = "malformed" THEN [product_name |-> "x"]
            ELSE [date |-> t, sales |-> ShapeValue(shape, t)]]

InitSeason ==
    /\ series \in {MkSeries(shape, n, rev) :
                     shape \in SeriesShapes, n \in 0..MaxSeries, rev \in BOOLEAN}
    /\ seasonality = NotCalled
    /\ periodicity = NotCalled

\* seasonalityUtils.detectSeasonality(data)
DetectSeasonality ==
    /\ component = "season"
    /\ ~seasonality.called
    /\ seasonality' = Returned(detectSeasonality(series))
    /\ UNCHANGED <<series, periodicity>>
    /\ SeasonFrame

\* the values argument of a direct call: the sales of the series, in a unit
PeriodicityValues(data, unit) == [i \in 1..Len(data) |-> Rat(ValueOf(data[i]), unit)]

\* seasonalityUtils.checkPeriodicity(values, lag)
CheckPeriodicity ==
    /\ component = "season"
    /\ ~periodicity.called
    /\ \E lag \in Lags, unit \in Units :
         \E meanRounded \in MeanRoundings(PeriodicityValues(series, unit)) :
            periodicity' = Returned(
                [lag |-> lag, unit |-> unit,
                 strength |-> checkPeriodicityFloat(PeriodicityValues(series, unit),
                                                    lag, meanRounded)])
    /\ UNCHANGED <<series, seasonality>>
    /\ SeasonFrame

-----------------------------------------------------------------------------
(* InventoryCalculator: the stock formulas, calculateHealthMetrics,        *)
(* calculateDailyDemand, calculateStdDev and calculateForecastAccuracy     *)

MaxSales == 2
MaxAccuracyPoints == 2
DefaultLeadTime == 7
DefaultStock == 100
DefaultDays == 365

\* JavaScript values that are not finite numbers
Absent == [undefined |-> TRUE]

Null == [null |-> TRUE]

NaN == [nan |-> TRUE]

Infinity == [inf |-> TRUE]

IsNum(x) == "n" \in DOMAIN x

\* !x: undefined, null, NaN and 0 are falsy
JSNot(x) == IF IsNum(x) THEN x.n = 0 ELSE "inf" \notin DOMAIN x

\* x / y on non-negative operands: 0 / 0 is NaN, x / 0 is Infinity
JSDiv(x, y) ==
    IF ~IsNum(x) \/ ~IsNum(y) THEN NaN
    ELSE IF y.n = 0 THEN (IF x.n = 0 THEN NaN ELSE Infinity)
    ELSE RDiv(x, y)

\* x * y and x + y; the callers never pass an infinity
JSMul(x, y) == IF ~IsNum(x) \/ ~IsNum(y) THEN NaN ELSE RMul(x, y)

JSAdd(x, y) == IF ~IsNum(x) \/ ~IsNum(y) THEN NaN ELSE RAdd(x, y)

\* Math.max and Math.min: NaN if an argument is NaN
JSMax(x, y) == IF ~IsNum(x) \/ ~IsNum(y) THEN NaN ELSE RMax(x, y)

JSMin(x, y) == IF ~IsNum(x) \/ ~IsNum(y) THEN NaN ELSE RMin(x, y)

\* Math.round(x * scale) / scale
JSRound(x, scale) ==
    IF ~IsNum(x) THEN NaN ELSE Rat(MathRound(RMul(x, Num(scale))), scale)

Floor(x) == x.n \div x.d

\* the largest r in lo..hi with r * r <= m
RECURSIVE ISqrtBetween(_, _, _)
ISqrtBetween(m, lo, hi) ==
    IF lo = hi THEN lo
    ELSE LET mid == (lo + hi + 1) \div 2
         IN  IF mid * mid <= m THEN ISqrtBetween(m, mid, hi)
             ELSE ISqrtBetween(m, lo, mid - 1)

ISqrt(m) == ISqrtBetween(m, 0, 46340)

\* the decimals Math.sqrt is evaluated to: three for small arguments, fewer
\* for large ones
SqrtScale(x) ==
    IF x.n <= 2000 THEN 1000
    ELSE IF x.n <= 200000 THEN 100
    ELSE IF x.n <= 20000000 THEN 10
    ELSE 1

\* Math.sqrt, truncated to SqrtScale decimals; NaN below 0
MathSqrt(x) ==
    IF ~IsNum(x) \/ x.n < 0 THEN NaN
    ELSE LET s == SqrtScale(x)
         IN  Rat(ISqrt(Floor(RMul(x, Num(s * s)))), s)

\* 10000 * e^-k, 10000 * e^-(k/10) and 10000 * e^-(k/100) for k = 0..9
ExpOnes == <<10000, 3679, 1353, 498, 183, 67, 25, 9, 3, 1>>

ExpTenths == <<10000, 9048, 8187, 7408, 6703, 6065, 5488, 4966, 4493, 4066>>

ExpHundredths == <<10000, 9900, 9802, 9704, 9608, 9512, 9418, 9324, 9231, 9139>>

\* Math.exp(-c / 100) for an integer c >= 0, to four decimals
ExpNeg(c) ==
    IF c >= 1000 THEN Num(0)
    ELSE Rat((((ExpOnes[(c \div 100) + 1] * ExpTenths[((c \div 10) % 10) + 1]) \div 10000)
                 * ExpHundredths[(c % 10) + 1]) \div 10000,
             10000)

\* Math.exp(-0.717 * z - 0.416 * z * z) for z >= 0, z read to two decimals
StockoutTail(z) ==
    IF ~IsNum(z) THEN NaN
    ELSE LET zc == Min(Floor(RMul(z, Num(100))), 1000)
         IN  ExpNeg((71700 * zc + 416 * zc * zc) \div 100000)

calculateEOQ(annualDemand, orderingCost, holdingCost) ==
    IF JSNot(annualDemand) \/ JSNot(orderingCost) \/ JSNot(holdingCost) THEN Null
    ELSE JSRound(MathSqrt(JSDiv(JSMul(JSMul(Num(2), annualDemand), orderingCost),
                                holdingCost)),
                 100)

calculateReorderPoint(averageDailyDemand, leadTimeDays, safetyStock) ==
    JSAdd(JSMul(averageDailyDemand, leadTimeDays), safetyStock)

\* zScores[serviceLevel] || 1.65
ZScore(serviceLevel) ==
    IF serviceLevel = Rat(90, 100) THEN Rat(128, 100)
    ELSE IF serviceLevel = Rat(99, 100) THEN Rat(233, 100)
    ELSE Rat(165, 100)

calculateSafetyStock(averageDailyDemand, leadTimeDays, serviceLevel, demandStdDev) ==
    JSRound(JSMul(JSMul(ZScore(serviceLevel), demandStdDev), MathSqrt(leadTimeDays)), 100)

calculateTurnover(costOfGoodsSold, averageInventory) ==
    IF JSNot(averageInventory) THEN Num(0)
    ELSE JSDiv(costOfGoodsSold, averageInventory)

calculateDIO(averageInventory, costOfGoodsSold, days) ==
    IF JSNot(costOfGoodsSold) THEN Num(0)
    ELSE JSMul(JSDiv(averageInventory, costOfGoodsSold), days)

\* faulty variant: the division is not guarded
calculateFillRateUnguarded(unitsShipped, unitsOrdered) ==
    JSDiv(unitsShipped, unitsOrdered)

calculateFillRate(unitsShipped, unitsOrdered) ==
    IF JSNot(unitsOrdered) THEN Num(1)
    ELSE JSDiv(unitsShipped, unitsOrdered)

\* faulty variant: the probability is returned as a percentage
calculateStockoutProbabilityPercent(averageDemand, safetyStock, demandStdDev) ==
    IF JSNot(demandStdDev) THEN Num(0)
    ELSE LET z == JSDiv(safetyStock, demandStdDev)
             probability == JSMul(StockoutTail(z), Num(100))
         IN  JSMin(Num(100), JSMax(Num(0), probability))

calculateStockoutProbability(averageDemand, safetyStock, demandStdDev) ==
    IF JSNot(demandStdDev) THEN Num(0)
    ELSE LET z == JSDiv(safetyStock, demandStdDev)
             probability == StockoutTail(z)
         IN  JSMin(Num(1), JSMax(Num(0), probability))

\* sale.sales || sale.quantity || 0
SalesValue(sale) ==
    IF "sales" \in DOMAIN sale /\ sale.sales # 0 THEN sale.sales
    ELSE IF "quantity" \in DOMAIN sale /\ sale.quantity # 0 THEN sale.quantity
    ELSE 0

\* s.revenue || 0
Revenue(sale) == IF "revenue" \in DOMAIN sale THEN sale.revenue ELSE 0

\* a field of a record, undefined when the record does not have it
FieldOf(r, field) == IF field \in DOMAIN r THEN r[field] ELSE Undefined

\* the Map byDate is filled record by record; toISOString() throws a
\* RangeError on the first record whose date does not parse; records without
\* a date are skipped; total / byDate.size is 0 / 0 when none has a date
calculateDailyDemand(salesData) ==
    IF Len(salesData) = 0 THEN Returned(Num(0))
    ELSE IF \E i \in 1..Len(salesData) :
              "date" \in DOMAIN salesData[i] /\ salesData[i].date = InvalidDate
    THEN Threw("RangeError")
    ELSE LET dated == {i \in 1..Len(salesData) : "date" \in DOMAIN salesData[i]}
             total == SumSeq([i \in 1..Len(salesData) |->
                                IF i \in dated THEN SalesValue(salesData[i]) ELSE 0])
             size == Cardinality({salesData[i].date : i \in dated})
         IN  Returned(JSDiv(Num(total), Num(size)))

\* the population standard deviation; 0 for no values
calculateStdDev(values) ==
    IF Len(values) = 0 THEN Num(0)
    ELSE LET n == Len(values)
             total == SumSeq(values)
             squareDiffs == SumSeq([i \in 1..n |->
                                      (n * values[i] - total) * (n * values[i] - total)])
         IN  MathSqrt(Rat(squareDiffs, n * n * n))

\* f.date === date, date being a.date || a.Date: two missing dates are equal
SameDate(a, f) ==
    IF "date" \in DOMAIN a THEN "date" \in DOMAIN f /\ f.date = a.date
    ELSE "date" \notin DOMAIN f

\* forecast.find(f => f.date === date): the index of the first match, or 0
FindForecast(a, forecast) ==
    IF \E j \in 1..Len(forecast) : SameDate(a, forecast[j])
    THEN CHOOSE j \in 1..Len(forecast) :
            /\ SameDate(a, forecast[j])
            /\ \A k \in 1..(j - 1) : ~SameDate(a, forecast[k])
    ELSE 0

\* the actual records that enter the error: a forecast point of the same
\* date was found and the actual value is positive
Counted(actual, forecast) ==
    {i \in 1..Len(actual) : FindForecast(actual[i], forecast) # 0 /\ SalesValue(actual[i]) > 0}

\* Math.abs((actualValue - forecastValue) / actualValue)
AbsoluteError(a, f) ==
    Rat(Abs(SalesValue(a) - f.predicted), SalesValue(a))

\* faulty variant: the accuracy is not held at 0
calculateForecastAccuracyUnclamped(actual, forecast) ==
    IF Len(actual) = 0 \/ Len(forecast) = 0 THEN Null
    ELSE LET counted == Counted(actual, forecast)
             totalError ==
                 RSumSeq([i \in 1..Len(actual) |->
                            IF i \in counted
                            THEN AbsoluteError(actual[i],
                                               forecast[FindForecast(actual[i], forecast)])
                            ELSE Num(0)])
         IN  IF counted = {} THEN Null
             ELSE RSub(Num(1), RDiv(totalError, Num(Cardinality(counted))))

calculateForecastAccuracy(actual, forecast) ==
    IF Len(actual) = 0 \/ Len(forecast) = 0 THEN Null
    ELSE LET counted == Counted(actual, forecast)
             totalError ==
                 RSumSeq([i \in 1..Len(actual) |->
                            IF i \in counted
                            THEN AbsoluteError(actual[i],
                                               forecast[FindForecast(actual[i], forecast)])
                            ELSE Num(0)])
         IN  IF counted = {} THEN Null
             ELSE RMax(Num(0), RSub(Num(1), RDiv(totalError, Num(Cardinality(counted)))))

\* salesData.filter(s => s.product_id === product.id || s.product_name === product.name)
ProductSales(product, salesData) ==
    LET matches(s) == \/ FieldOf(s, "product_id") = product.id
                      \/ FieldOf(s, "product_name") = product.name
    IN  SelectSeq(salesData, matches)

\* forecast?.forecast?.filter(f => f.product_id === product.id) || []
ProductForecast(product, forecast) ==
    IF "forecast" \notin DOMAIN forecast THEN <<>>
    ELSE LET matches(f) == FieldOf(f, "product_id") = product.id
         IN  SelectSeq(forecast.forecast, matches)

\* the object pushed for one product, given the sales attributed to it
HealthRow(product, productSales, forecast) ==
    LET dailyDemand == calculateDailyDemand(productSales).value
        demandStdDev ==
            calculateStdDev([i \in 1..Len(productSales) |-> SalesValue(productSales[i])])
        leadTime == Num(OrDefault(product.lead_time_days, DefaultLeadTime))
        stock == Num(OrDefault(product.current_stock, DefaultStock))
        safetyStock == calculateSafetyStock(dailyDemand, leadTime, Rat(95, 100), demandStdDev)
        reorderPoint == calculateReorderPoint(dailyDemand, leadTime, safetyStock)
    IN  [product_id |-> product.id,
         product_name |-> product.name,
         daily_demand |-> JSRound(dailyDemand, 100),
         demand_std_dev |-> JSRound(demandStdDev, 100),
         safety_stock |-> JSRound(safetyStock, 1),
         reorder_point |-> JSRound(reorderPoint, 1),
         stockout_probability |->
             calculateStockoutProbability(dailyDemand, safetyStock, demandStdDev),
         turnover_rate |->
             calculateTurnover(
                 Num(SumSeq([i \in 1..Len(productSales) |-> Revenue(productSales[i])])),
                 stock),
         days_of_inventory |-> calculateDIO(stock, dailyDemand, Num(1)),
         forecast_accuracy |->
             calculateForecastAccuracy(productSales, ProductForecast(product, forecast))]

\* one row per product, in order; the RangeError of calculateDailyDemand is
\* not caught and ends the call
calculateHealthMetrics(products, salesData, forecast) ==
    IF \E i \in 1..Len(products) :
          HasThrown(calculateDailyDemand(ProductSales(products[i], salesData)))
    THEN Threw("RangeError")
    ELSE Returned([i \in 1..Len(products) |->
                      HealthRow(products[i], ProductSales(products[i], salesData), forecast)])

\* the arguments of the direct calls of the formulas
EOQValues == {Absent, Num(0), Num(10), Num(50), Num(1000)}

RatioCalls ==
    [fn : {"calculateTurnover"}, args : {Num(0), Num(8)} \X {Absent, Num(0), Num(4)}]
        \cup [fn : {"calculateFillRate"},
              args : {Num(0), Num(950)} \X {Absent, Num(0), Num(1000)}]
        \cup [fn : {"calculateDIO"},
              args : {Num(0), Num(5000)} \X {Absent, Num(0), Num(36500)} \X {Absent, Num(1)}]

FormulaCalls ==
    [fn : {"calculateEOQ"}, args : EOQValues \X EOQValues \X EOQValues]
        \cup RatioCalls
        \cup [fn : {"calculateStockoutProbability"},
              args : {Num(0), Num(10)} \X {Num(0), Num(2), Num(10), Num(1000)}
                         \X {Absent, Num(0), Num(5), Rat(1, 2)}]

\* the catalog: two products with distinct ids and names; 0 stands for a
\* field the product omits (lead_time_days || 7 and current_stock || 100
\* read both the same way)
CatalogProducts ==
    {[id |-> "P1", name |-> "A", lead_time_days |-> 0, current_stock |-> 0],
     [id |-> "P2", name |-> "B", lead_time_days |-> 4, current_stock |-> 10]}

ProductLists ==
    {ps \in SeqsUpTo(CatalogProducts, MaxProducts) :
        \A i, j \in 1..Len(ps) : i # j => ps[i].id # ps[j].id}

\* the sales records of a request
SalesRecords ==
    {[product_id |-> "P1", product_name |-> "A", date |-> 1, sales |-> 2],
     [product_id |-> "P1", product_name |-> "A", date |-> 2, sales |-> 4, revenue |-> 8],
     [product_id |-> "P1", product_name |-> "A", date |-> 2, sales |-> 0],
     [product_id |-> "P1", product_name |-> "B", date |-> 1, sales |-> 4],
     [product_name |-> "B", date |-> 1, quantity |-> 4],
     [product_id |-> "P2", sales |-> 2],
     [product_id |-> "P2", product_name |-> "B", date |-> InvalidDate, sales |-> 2]}

\* the forecast points of a request
AccuracyPoints ==
    {[product_id |-> "P1", date |-> 1, predicted |-> 3],
     [product_id |-> "P1", date |-> 2, predicted |-> 12],
     [product_id |-> "P2", date |-> 1, predicted |-> 0],
     [product_id |-> "P2", predicted |-> 4]}

\* the forecast argument of calculateHealthMetrics: undefined, an object
\* without a forecast array, or one with it
HealthForecasts ==
    {Absent,
     [insights |-> <<>>],
     [forecast |-> <<>>],
     [forecast |-> <<[product_id |-> "P1", date |-> 1, predicted |-> 3],
                     [product_id |-> "P2", date |-> 1, predicted |-> 0]>>],
     [forecast |-> <<[product_id |-> "P1", date |-> 2, predicted |-> 12],
                     [product_id |-> "P2", predicted |-> 4]>>]}

InitHealth ==
    /\ healthResult = NotCalled
    /\ \/ healthArgs \in FormulaCalls
       \/ healthArgs \in [fn : {"calculateHealthMetrics"},
                          products : ProductLists,
                          salesData : SeqsUpTo(SalesRecords, MaxSales),
                          forecast : HealthForecasts]
       \/ healthArgs \in [fn : {"calculateDailyDemand"},
                          salesData : SeqsUpTo(SalesRecords, MaxSales)]
       \/ healthArgs \in [fn : {"calculateForecastAccuracy"},
                          actual : SeqsUpTo(SalesRecords, MaxSales),
                          forecast : SeqsUpTo(AccuracyPoints, MaxAccuracyPoints)]

CalculateEOQ ==
    /\ component = "health"
    /\ healthArgs.fn = "calculateEOQ"
    /\ ~healthResult.called
    /\ healthResult' = Returned(calculateEOQ(healthArgs.args[1], healthArgs.args[2],
                                             healthArgs.args[3]))
    /\ UNCHANGED healthArgs
    /\ HealthFrame

CalculateTurnover ==
    /\ component = "health"
    /\ healthArgs.fn = "calculateTurnover"
    /\ ~healthResult.called
    /\ healthResult' = Returned(calculateTurnover(healthArgs.args[1], healthArgs.args[2]))
    /\ UNCHANGED healthArgs
    /\ HealthFrame

\* calculateDIO(averageInventory, costOfGoodsSold, days = 365)
CalculateDIO ==
    /\ component = "health"
    /\ healthArgs.fn = "calculateDIO"
    /\ ~healthResult.called
    /\ healthResult' =
         Returned(calculateDIO(healthArgs.args[1], healthArgs.args[2],
                               IF healthArgs.args[3] = Absent THEN Num(DefaultDays)
                               ELSE healthArgs.args[3]))
    /\ UNCHANGED healthArgs
    /\ HealthFrame

CalculateFillRate ==
    /\ component = "health"
    /\ healthArgs.fn = "calculateFillRate"
    /\ ~healthResult.called
    /\ healthResult' = Returned(calculateFillRate(healthArgs.args[1], healthArgs.args[2]))
    /\ UNCHANGED healthArgs
    /\ HealthFrame

CalculateStockoutProbability ==
    /\ component = "health"
    /\ healthArgs.fn = "calculateStockoutProbability"
    /\ ~healthResult.called
    /\ healthResult' =
         Returned(calculateStockoutProbability(healthArgs.args[1], healthArgs.args[2],
                                               healthArgs.args[3]))
    /\ UNCHANGED healthArgs
    /\ HealthFrame

CalculateHealthMetrics ==
    /\ component = "health"
    /\ healthArgs.fn = "calculateHealthMetrics"
    /\ ~healthResult.called
    /\ healthResult' = calculateHealthMetrics(healthArgs.products, healthArgs.salesData,
                                              healthArgs.forecast)
    /\ UNCHANGED healthArgs
    /\ HealthFrame

CalculateDailyDemand ==
    /\ component = "health"
    /\ healthArgs.fn = "calculateDailyDemand"
    /\ ~healthResult.called
    /\ healthResult' = calculateDailyDemand(healthArgs.salesData)
    /\ UNCHANGED healthArgs
    /\ HealthFrame

CalculateForecastAccuracy ==
    /\ component = "health"
    /\ healthArgs.fn = "calculateForecastAccuracy"
    /\ ~healthResult.called
    /\ healthResult' = Returned(calculateForecastAccuracy(healthArgs.actual,
                                                          healthArgs.forecast))
    /\ UNCHANGED healthArgs
    /\ HealthFrame

-----------------------------------------------------------------------------
(* The products routes: GET/POST/PUT/DELETE /api/products and POST /bulk   *)

MaxRequests == 3
MaxBulk == 2
InitialProducts == 5

\* the products array as the module is loaded: P001 .. P005; the id
\* `P${String(n).padStart(3, '0')}` is written n
InitialCatalog == [n \in 1..InitialProducts |-> [id |-> n, name |-> "seed"]]

\* request bodies of POST /api/products: with the required fields, or without
CreateBodies == {[name |-> "new"], [supplier |-> "x"]}

\* request bodies of POST /api/products/bulk: an array of entries with name
\* and category or without, or no array
BulkBodies ==
    [products : SeqsUpTo({[name |-> "bulk"], [supplier |-> "x"]}, MaxBulk)]
        \cup {[other |-> TRUE]}

\* request bodies of PUT /api/products/:id: fields to overwrite, an id among them or not
UpdateBodies == {[name |-> "renamed"], [id |-> 1, name |-> "renamed"]}

\* req.params.id: the id of a product of the catalog, or an id of none (P000)
RequestIds == {0} \cup {catalog[i].id : i \in 1..Len(catalog)}

\* products.findIndex(p => p.id === id): the first index, 0 for -1
FindIndex(id) ==
    IF \E i \in 1..Len(catalog) : catalog[i].id = id
    THEN CHOOSE i \in 1..Len(catalog) :
            catalog[i].id = id /\ \A k \in 1..(i - 1) : catalog[k].id # id
    ELSE 0

\* the products a bulk import adds: the entries with a name, each with the id
\* products.length + imported.length + 1
RECURSIVE Imported(_, _)
Imported(newProducts, length) ==
    IF newProducts = <<>> THEN <<>>
    ELSE LET rest == Imported(SubSeq(newProducts, 1, Len(newProducts) - 1), length)
             p == newProducts[Len(newProducts)]
         IN  IF "name" \in DOMAIN p
             THEN Append(rest, [id |-> length + Len(rest) + 1, name |-> p.name])
             ELSE rest

InitProducts ==
    /\ catalog = InitialCatalog
    /\ productRequests = 0
    /\ productRes = NotCalled

\* POST /api/products
CreateProduct ==
    /\ component = "products"
    /\ productRequests < MaxRequests
    /\ \E body \in CreateBodies :
         IF "name" \notin DOMAIN body
         THEN /\ productRes' = Returned([status |-> 400])
              /\ UNCHANGED catalog
         ELSE LET newProduct == [id |-> Len(catalog) + 1, name |-> body.name]
              IN  /\ catalog' = Append(catalog, newProduct)
                  /\ productRes' = Returned([status |-> 201, product |-> newProduct])
    /\ productRequests' = productRequests + 1
    /\ ProductsFrame

\* PUT /api/products/:id
UpdateProduct ==
    /\ component = "products"
    /\ productRequests < MaxRequests
    /\ \E id \in RequestIds, body \in UpdateBodies :
         LET index == FindIndex(id)
         IN  IF index = 0
             THEN /\ productRes' = Returned([status |-> 404])
                  /\ UNCHANGED catalog
             ELSE LET updated == [id |-> id, name |-> body.name]
                  IN  /\ catalog' = [catalog EXCEPT ![index] = updated]
                      /\ productRes' = Returned([status |-> 200, product |-> updated])
    /\ productRequests' = productRequests + 1
    /\ ProductsFrame

\* DELETE /api/products/:id
DeleteProduct ==
    /\ component = "products"
    /\ productRequests < MaxRequests
    /\ \E id \in RequestIds :
         LET index == FindIndex(id)
         IN  IF index = 0
             THEN /\ productRes' = Returned([status |-> 404])
                  /\ UNCHANGED catalog
             ELSE /\ catalog' = [i \in 1..(Len(catalog) - 1) |->
                                    IF i < index THEN catalog[i] ELSE catalog[i + 1]]
                  /\ productRes' = Returned([status |-> 200, product |-> catalog[index]])
    /\ productRequests' = productRequests + 1
    /\ ProductsFrame

\* POST /api/products/bulk
BulkImport ==
    /\ component = "products"
    /\ productRequests < MaxRequests
    /\ \E body \in BulkBodies :
         IF "products" \notin DOMAIN body
         THEN /\ productRes' = Returned([status |-> 400])
              /\ UNCHANGED catalog
         ELSE LET imported == Imported(body.products, Len(catalog))
              IN  /\ catalog' = catalog \o imported
                  /\ productRes' = Returned([status |-> 200, imported |-> Len(imported)])
    /\ productRequests' = productRequests + 1
    /\ ProductsFrame

-----------------------------------------------------------------------------
(* ForecastLogic.generateForecast with its cache, and the routes           *)
(* POST /api/forecast/generate and /text with their sessions               *)

MaxCalls == 2
MaxTicks == 2
CacheTTL == 3600000

\* the clock advances in steps of half the cache's lifetime
TickMs == CacheTTL \div 2

\* cacheKey null, or no sessionId in the request
NoKey == -1

\* the session id the client holds and sends again (DemandSenseAPI.sessionId)
ClientSessionId == 0

\* uuidv4() in the request of call c: an id no other request has
Uuid(c) == c

CacheKeys == {ClientSessionId} \cup {Uuid(c) : c \in 1..MaxCalls}

\* a key without an entry in a Map
NoEntry == [present |-> FALSE]

\* the calls: through a route (with the client's session id or none) or
\* directly (with a cacheKey or none), with no sales rows or with the rows of
\* this call's upload
CallArguments ==
    [via : {"route", "direct"}, sessionId : {ClientSessionId, NoKey},
     sales : {"empty", "rows"}]

\* options.cacheKey: the routes pass sessionId || uuidv4()
CacheKeyOf(c) ==
    IF calls[c].sessionId # NoKey THEN calls[c].sessionId
    ELSE IF calls[c].via = "route" THEN Uuid(c)
    ELSE NoKey

\* faulty variant: an entry exactly one hour old is still returned
CacheHitInclusive(key) ==
    /\ key # NoKey
    /\ forecastCache[key].present
    /\ now - forecastCache[key].timestamp <= CacheTTL

\* cacheKey && forecastCache.has(cacheKey) && Date.now() - cached.timestamp < 3600000
CacheHit(key) ==
    /\ key # NoKey
    /\ forecastCache[key].present
    /\ now - forecastCache[key].timestamp < CacheTTL

\* faulty variant: the sales data is not validated
NoSalesDataUnchecked(sales) == FALSE

\* !salesData || salesData.length === 0
NoSalesData(sales) == sales = "empty"

\* new Error(`Failed to generate forecast: ${error.message}`), as its parts
FailedToGenerate(cause) == [message |-> <<"Failed to generate forecast: ", cause>>]

\* forecastSessions.set(sessionId, {salesData, forecast, ...}) when the call
\* came through a route; salesData is the upload of call c
StoreSession(c, forecast) ==
    IF calls[c].via = "route"
    THEN forecastSessions' =
            [forecastSessions EXCEPT ![CacheKeyOf(c)] =
                [present |-> TRUE, salesData |-> c, forecast |-> forecast]]
    ELSE UNCHANGED forecastSessions

InitForecast ==
    /\ forecastCache = [k \in CacheKeys |-> NoEntry]
    /\ forecastSessions = [k \in CacheKeys |-> NoEntry]
    /\ calls \in [1..MaxCalls ->
                    {[via |-> a.via, sessionId |-> a.sessionId, sales |-> a.sales,
                      pc |-> "new", startedAt |-> 0, outcome |-> NotCalled] :
                        a \in CallArguments}]
    /\ now = 0

\* generateForecast up to its first await of the AI: the cache lookup, the
\* validation, and the request sent to the AI provider
StartForecast(c) ==
    /\ component = "forecast"
    /\ calls[c].pc = "new"
    /\ IF CacheHit(CacheKeyOf(c))
       THEN /\ calls' = [calls EXCEPT ![c].pc = "done", ![c].startedAt = now,
                                       ![c].outcome =
                                            Returned(forecastCache[CacheKeyOf(c)].data)]
            /\ StoreSession(c, forecastCache[CacheKeyOf(c)].data)
       ELSE IF NoSalesData(calls[c].sales)
       THEN /\ calls' = [calls EXCEPT ![c].pc = "done", ![c].startedAt = now,
                                       ![c].outcome =
                                            Threw(FailedToGenerate("No sales data provided"))]
            /\ UNCHANGED forecastSessions
       ELSE /\ calls' = [calls EXCEPT ![c].pc = "ai", ![c].startedAt = now]
            /\ UNCHANGED forecastSessions
    /\ UNCHANGED <<forecastCache, now>>
    /\ ForecastFrame

\* the AI provider answers call c: the result, made from the sales rows of
\* call c, is parsed, cached under the key and returned; the route stores
\* the session
AIResponds(c) ==
    /\ component = "forecast"
    /\ calls[c].pc = "ai"
    /\ LET result == [from |-> c]
       IN  /\ calls' = [calls EXCEPT ![c].pc = "done", ![c].outcome = Returned(result)]
           /\ forecastCache' =
                IF CacheKeyOf(c) # NoKey
                THEN [forecastCache EXCEPT ![CacheKeyOf(c)] =
                        [present |-> TRUE, data |-> result, timestamp |-> now]]
                ELSE forecastCache
           /\ StoreSession(c, result)
    /\ UNCHANGED now
    /\ ForecastFrame

\* the AI request of call c fails: the error is wrapped and thrown
AIFails(c) ==
    /\ component = "forecast"
    /\ calls[c].pc = "ai"
    /\ calls' = [calls EXCEPT ![c].pc = "done",
                              ![c].outcome = Threw(FailedToGenerate("API error"))]
    /\ UNCHANGED <<forecastCache, forecastSessions, now>>
    /\ ForecastFrame

\* time passes
Tick ==
    /\ component = "forecast"
    /\ now < MaxTicks * TickMs
    /\ now' = now + TickMs
    /\ UNCHANGED <<forecastCache, forecastSessions, calls>>
    /\ ForecastFrame

-----------------------------------------------------------------------------
(* The specifications: one machine per component; the variables of the     *)
(* other components stay at their idle values.                             *)

IdleABC == items = <<>> /\ classified = NotCalled /\ reclassified = NotCalled

IdleOrder == orderArgs = [kind |-> "none"] /\ orderResult = NotCalled

IdleScenario ==
    baseForecast = <<>> /\ scenarioReq = [route |-> "none"] /\ scenarioRes = NotCalled

IdleSeason == series = <<>> /\ seasonality = NotCalled /\ periodicity = NotCalled

IdleHealth == healthArgs = [fn |-> "none"] /\ healthResult = NotCalled

IdleProducts == catalog = <<>> /\ productRequests = 0 /\ productRes = NotCalled

IdleForecast ==
    /\ forecastCache = <<>>
    /\ forecastSessions = <<>>
    /\ calls = <<>>
    /\ now = 0

IdleServers == IdleProducts /\ IdleForecast

InitABCOnly ==
    component = "abc" /\ InitABC /\ IdleOrder /\ IdleScenario /\ IdleSeason /\ IdleHealth /\ IdleServers

NextABC ==
    \/ ClassifyABC
    \/ Reclassify

SpecABC == InitABCOnly /\ [][NextABC]_vars

InitOrderOnly ==
    component = "order" /\ InitOrder /\ IdleABC /\ IdleScenario /\ IdleSeason /\ IdleHealth /\ IdleServers

NextOrder ==
    \/ CalculateOptimalOrder
    \/ Optimize

SpecOrder == InitOrderOnly /\ [][NextOrder]_vars

InitScenarioOnly ==
    component = "scenario" /\ InitScenario /\ IdleABC /\ IdleOrder /\ IdleSeason /\ IdleHealth /\ IdleServers

NextScenario ==
    \/ DemandShock
    \/ Promotion
    \/ ApplySeasonality
    \/ CreateFallbackForecast
    \/ RunScenario
    \/ CalculateScenarioImpact
    \/ CalculateRiskLevel

SpecScenario == InitScenarioOnly /\ [][NextScenario]_vars

InitSeasonOnly ==
    component = "season" /\ InitSeason /\ IdleABC /\ IdleOrder /\ IdleScenario /\ IdleHealth /\ IdleServers

NextSeason ==
    \/ DetectSeasonality
    \/ CheckPeriodicity

SpecSeason == InitSeasonOnly /\ [][NextSeason]_vars

InitHealthOnly ==
    component = "health" /\ InitHealth /\ IdleABC /\ IdleOrder /\ IdleScenario /\ IdleSeason /\ IdleServers

NextHealth ==
    \/ CalculateEOQ
    \/ CalculateTurnover
    \/ CalculateDIO
    \/ CalculateFillRate
    \/ CalculateStockoutProbability
    \/ CalculateHealthMetrics
    \/ CalculateDailyDemand
    \/ CalculateForecastAccuracy

SpecHealth == InitHealthOnly /\ [][NextHealth]_vars

\* every component, one call at a time
InitProductsOnly ==
    /\ component = "products" /\ InitProducts
    /\ IdleABC /\ IdleOrder /\ IdleScenario /\ IdleSeason /\ IdleHealth /\ IdleForecast

NextProducts ==
    \/ CreateProduct
    \/ UpdateProduct
    \/ DeleteProduct
    \/ BulkImport

SpecProducts == InitProductsOnly /\ [][NextProducts]_vars

InitForecastOnly ==
    /\ component = "forecast" /\ InitForecast
    /\ IdleABC /\ IdleOrder /\ IdleScenario /\ IdleSeason /\ IdleHealth /\ IdleProducts

NextForecast ==
    \/ \E c \in 1..MaxCalls : StartForecast(c)
    \/ \E c \in 1..MaxCalls : AIResponds(c)
    \/ \E c \in 1..MaxCalls : AIFails(c)
    \/ Tick

SpecForecast == InitForecastOnly /\ [][NextForecast]_vars

Init ==
    \/ InitABCOnly
    \/ InitOrderOnly
    \/ InitScenarioOnly
    \/ InitSeasonOnly
    \/ InitHealthOnly
    \/ InitProductsOnly
    \/ InitForecastOnly

Next ==
    \/ NextABC
    \/ NextOrder
    \/ NextScenario
    \/ NextSeason
    \/ NextHealth
    \/ NextProducts
    \/ NextForecast

Spec == Init /\ [][Next]_vars

-----------------------------------------------------------------------------
(* Properties                                                              *)

ABCClasses == {"A", "B", "C"}

ClassifyReturns == ~classified.called /\ HasReturned(classified')

\* C1: classifyABC returns a list of the same length as its input that is a
\* permutation of the input items (every input object occurs exactly once, with
\* its value), every returned item carries a class in {A, B, C}, and so the
\* A, B and C counts add up to the input length.
C1_ClassifiedIsAnnotatedPermutation ==
    [][ClassifyReturns =>
        LET out == classified'.value
            count(c) == Cardinality({k \in 1..Len(out) : out[k].class = c})
        IN  /\ Len(out) = Len(items)
            /\ \A i \in 1..Len(items) :
                 Cardinality({k \in 1..Len(out) :
                                /\ out[k].id = items[i].id
                                /\ out[k].annualValue = items[i].annualValue}) = 1
            /\ \A k \in 1..Len(out) : out[k].class \in ABCClasses
            /\ count("A") + count("B") + count("C") = Len(items)]_vars

\* a classification of three items or more that uses all three classes
C1_Witness ==
    /\ HasReturned(classified)
    /\ Len(classified.value) >= 3
    /\ \A c \in ABCClasses : \E k \in 1..Len(classified.value) : classified.value[k].class = c

\* C2: the returned items are in descending order of value, the item at each
\* position is classified by the cumulative share up to and including it
\* (A if <= 0.8, B if > 0.8 and <= 0.95, C otherwise; the share is
\* cumulative / total, whatever the sign of a non-zero total), and for
\* non-negative values with a positive total no A follows a B or C and no B
\* follows a C.
C2_ClassByCumulativeShare ==
    HasReturned(classified) =>
        LET out == classified.value
            n == Len(out)
            cum(k) == SumSeq([i \in 1..k |-> out[i].annualValue])
            total == cum(n)
            rank(c) == CASE c = "A" -> 1 [] c = "B" -> 2 [] OTHER -> 3
        IN  /\ \A k \in 1..(n - 1) : out[k].annualValue >= out[k + 1].annualValue
            /\ total > 0 =>
                 \A k \in 1..n :
                    out[k].class = IF 10 * cum(k) <= 8 * total THEN "A"
                                   ELSE IF 100 * cum(k) <= 95 * total THEN "B"
                                   ELSE "C"
            /\ total < 0 =>
                 \A k \in 1..n :
                    out[k].class = IF 10 * cum(k) >= 8 * total THEN "A"
                                   ELSE IF 100 * cum(k) >= 95 * total THEN "B"
                                   ELSE "C"
            /\ (total > 0 /\ \A k \in 1..n : out[k].annualValue >= 0) =>
                 \A k \in 1..(n - 1) : rank(out[k].class) <= rank(out[k + 1].class)

\* non-negative values where one item closes exactly 80% and another exactly 95%
C2_Witness ==
    /\ HasReturned(classified)
    /\ LET out == classified.value
           cum(k) == SumSeq([i \in 1..k |-> out[i].annualValue])
       IN  /\ \A k \in 1..Len(out) : out[k].annualValue >= 0
           /\ cum(Len(out)) > 0
           /\ \E k \in 1..Len(out) : 10 * cum(k) = 8 * cum(Len(out)) /\ out[k].class = "A"
           /\ \E k \in 1..Len(out) : 100 * cum(k) = 95 * cum(Len(out)) /\ out[k].class = "B"
           /\ \E k \in 1..Len(out) : out[k].class = "C"

DirectCallReturned == orderArgs.kind = "call" /\ HasReturned(orderResult)

\* C3: calculateOptimalOrder never recommends a negative quantity and never
\* exceeds capacity: final >= 0, final <= maxStock, currentStock + final <=
\* maxStock whenever currentStock <= maxStock, and final = 0 when
\* currentStock >= maxStock.
C3_FinalWithinCapacity ==
    DirectCallReturned =>
        LET final == orderResult.value.final
            currentStock == orderArgs.currentStock
            maxStock == orderArgs.maxStock
        IN  /\ final >= 0
            /\ final <= maxStock
            /\ currentStock <= maxStock => currentStock + final <= maxStock
            /\ currentStock >= maxStock => final = 0

\* the capacity, not the demand, decides the order: adjusted > final = room left > 0
C3_Witness ==
    /\ DirectCallReturned
    /\ orderResult.value.final = orderArgs.maxStock - orderArgs.currentStock
    /\ orderResult.value.final > 0
    /\ orderResult.value.adjusted > orderResult.value.final

\* the sum of predicted over the first 7 points (all of them when fewer)
First7Demand(forecast) ==
    SumSeq([i \in 1..Len(forecast) |-> IF i <= 7 THEN forecast[i].predicted ELSE 0])

First7(forecast) == SubSeq(forecast, 1, IF Len(forecast) < 7 THEN Len(forecast) ELSE 7)

C5_UrgencyFlags ==
    /\ DirectCallReturned =>
         LET r == orderResult.value
         IN  /\ r.urgent <=> 2 * orderArgs.currentStock < orderArgs.reorderPoint
             /\ r.critical <=> 4 * orderArgs.currentStock < orderArgs.reorderPoint
             /\ r.critical => r.urgent
    /\ (orderArgs.kind = "optimize" /\ HasReturned(orderResult)) =>
         LET r == orderResult.value
         IN  /\ \A i \in 1..Len(r.optimalOrders) :
                  r.optimalOrders[i].critical => r.optimalOrders[i].urgent
             /\ r.summary.criticalOrders <= r.summary.urgentOrders
             /\ r.summary.urgentOrders <= Len(orderArgs.products)

\* an /optimize response with two urgent orders of which one is critical
C5_Witness ==
    /\ orderArgs.kind = "optimize"
    /\ HasReturned(orderResult)
    /\ orderResult.value.summary.urgentOrders = 2
    /\ orderResult.value.summary.criticalOrders = 1

ScenarioReturns == ~scenarioRes.called /\ scenarioRes'.called

\* C6: the demand-shock scenario with multiplier m and duration d on a base
\* forecast of n points returns n points in the same order; point i (0-based)
\* has predicted, upper_bound and lower_bound multiplied by m if i < d and is
\* the base point if i >= d.  For the 30-point flat forecast of 100 with m=1.5,
\* d=7 the first 7 points become 150 and points 8-30 stay 100.
C6_DemandShockFirstDuration ==
    [][(ScenarioReturns /\ scenarioReq.route = "/demand-shock") =>
        LET m == FieldOr(scenarioReq, "multiplier", Rat(3, 2))
            d == FieldOr(scenarioReq, "duration", 7)
            out == scenarioRes'.value.forecast
        IN  /\ Len(out) = Len(baseForecast)
            /\ \A i \in 1..Len(out) :
                 /\ out[i].date = baseForecast[i].date
                 /\ IF i - 1 < d
                    THEN /\ out[i].predicted = RMul(baseForecast[i].predicted, m)
                         /\ out[i].upper_bound = RMul(baseForecast[i].upper_bound, m)
                         /\ out[i].lower_bound = RMul(baseForecast[i].lower_bound, m)
                    ELSE out[i] = baseForecast[i]
            /\ (baseForecast = FlatForecast /\ m = Rat(3, 2) /\ d = 7) =>
                 /\ \A i \in 1..7 : out[i].predicted = Num(150)
                 /\ \A i \in 8..30 : out[i].predicted = Num(100)]_vars

\* the flat 30-point forecast shocked by 1.5 for 7 days
C6_Witness ==
    /\ HasReturned(scenarioRes)
    /\ scenarioReq = [route |-> "/demand-shock", multiplier |-> Rat(3, 2), duration |-> 7]
    /\ Len(scenarioRes.value.forecast) = 30
    /\ scenarioRes.value.forecast[7].predicted = Num(150)
    /\ scenarioRes.value.forecast[8].predicted = Num(100)

\* C7: applying a demand-shock or promotion scenario, or applySeasonality,
\* never mutates the caller's base forecast: same length, same values in every
\* point, no added fields.
C7_BaseForecastNotMutated ==
    [][(ScenarioReturns
        /\ scenarioReq.route \in {"/demand-shock", "/promotion", "applySeasonality"}) =>
          /\ Len(baseForecast') = Len(baseForecast)
          /\ \A i \in 1..Len(baseForecast) :
               /\ DOMAIN baseForecast'[i] = DOMAIN baseForecast[i]
               /\ baseForecast'[i] = baseForecast[i]]_vars

\* a call whose result differs from the base forecast it was given
C7_Witness ==
    /\ HasReturned(scenarioRes)
    /\ scenarioReq.route \in {"/demand-shock", "/promotion", "applySeasonality"}
    /\ baseForecast # <<>>
    /\ scenarioRes.value.forecast # baseForecast
    /\ \E i \in 1..Len(baseForecast) :
         scenarioRes.value.forecast[i].predicted # baseForecast[i].predicted

ImpactCalled ==
    /\ scenarioReq.route = "impact"
    /\ scenarioRes.called
    /\ HasReturned(scenarioRes) => "percentageChange" \in DOMAIN scenarioRes.value

\* C8: for a demand_shock or promotion scenario whose parameters carry
\* multiplier m, calculateScenarioImpact returns percentageChange =
\* round((m-1)*100), totalDemandImpact = round(T*(m-1)) with T the sum of
\* predicted, and severity high if m > 1.5, medium if 1.2 < m <= 1.5, low
\* otherwise, for every numeric m including m = 0 and m < 1.
C8_ImpactFollowsMultiplier ==
    (/\ ImpactCalled
     /\ scenarioReq.scenario.type \in {"demand_shock", "promotion"}
     /\ "parameters" \in DOMAIN scenarioReq.scenario
     /\ "multiplier" \in DOMAIN scenarioReq.scenario.parameters) =>
        LET m == scenarioReq.scenario.parameters.multiplier
            T == RSumSeq([i \in 1..Len(baseForecast) |-> baseForecast[i].predicted])
        IN  /\ HasReturned(scenarioRes)
            /\ scenarioRes.value.percentageChange = MathRound(RMul(RSub(m, Num(1)), Num(100)))
            /\ scenarioRes.value.totalDemandImpact = MathRound(RMul(T, RSub(m, Num(1))))
            /\ scenarioRes.value.severity =
                 IF RLt(Rat(3, 2), m) THEN "high"
                 ELSE IF RLt(Rat(6, 5), m) THEN "medium"
                 ELSE "low"

KnownScenarioTypes == {"demand_shock", "supply_disruption", "promotion", "custom"}

\* C9: a scenario whose type is not one of the known types is a no-op, not an
\* error: calculateScenarioImpact returns totalDemandImpact = 0,
\* percentageChange = 0 and severity = low for any base forecast and does not
\* throw (nor does calculateRiskLevel, which rates it low).
C9_UnknownTypeIsNoOp ==
    (/\ scenarioReq.route = "impact"
     /\ scenarioRes.called
     /\ scenarioReq.scenario.type \notin KnownScenarioTypes) =>
        /\ HasReturned(scenarioRes)
        /\ "percentageChange" \in DOMAIN scenarioRes.value =>
             /\ scenarioRes.value.totalDemandImpact = 0
             /\ scenarioRes.value.percentageChange = 0
             /\ scenarioRes.value.severity = "low"
        /\ "riskLevel" \in DOMAIN scenarioRes.value => scenarioRes.value.riskLevel = "low"

\* the impact of a mistyped scenario without parameters on a forecast with demand
C9_Witness ==
    /\ scenarioReq = [route |-> "impact", scenario |-> [type |-> "demand-shock"]]
    /\ HasReturned(scenarioRes)
    /\ "percentageChange" \in DOMAIN scenarioRes.value
    /\ scenarioRes.value.percentageChange = 0
    /\ \E i \in 1..Len(baseForecast) : baseForecast[i].predicted.n > 0

\* C10: detectSeasonality on a series of fewer than 30 points returns
\* detected=false with a reason, whatever the values and dates are, and does
\* not throw.
C10_ShortSeriesNotDetected ==
    (seasonality.called /\ Len(series) < 30) =>
        /\ HasReturned(seasonality)
        /\ seasonality.value.detected = FALSE
        /\ "reason" \in DOMAIN seasonality.value

\* 29 points with a weekly rhythm strong enough to be detected, had there been 30
C10_Witness ==
    /\ HasReturned(seasonality)
    /\ Len(series) = 29
    /\ ~seasonality.value.detected
    /\ RLt(Rat(3, 10), checkPeriodicity([i \in 1..29 |-> ValueOf(SortByDate(series)[i])], 7))

\* C11: for a series of at least 30 points detectSeasonality reports the
\* pattern weekly exactly when the lag-7 strength exceeds 0.3 (even if the
\* lag-30 strength is larger), monthly exactly when the lag-7 strength is at
\* most 0.3 and the lag-30 strength exceeds 0.2, and no pattern otherwise;
\* detected is true exactly when a pattern is reported, and the day-of-week
\* profile is present exactly when the pattern is weekly.
C11_PatternByThresholds ==
    (HasReturned(seasonality) /\ Len(series) >= 30) =>
        LET sorted == SortByDate(series)
            values == [i \in 1..Len(sorted) |-> ValueOf(sorted[i])]
            overWeekly == RLt(Rat(3, 10), checkPeriodicity(values, 7))
            overMonthly == RLt(Rat(2, 10), checkPeriodicity(values, 30))
            v == seasonality.value
        IN  /\ "pattern" \in DOMAIN v
            /\ (v.pattern = "weekly") <=> overWeekly
            /\ (v.pattern = "monthly") <=> (~overWeekly /\ overMonthly)
            /\ (v.pattern = "null") <=> (~overWeekly /\ ~overMonthly)
            /\ v.detected <=> (v.pattern \in {"weekly", "monthly"})
            /\ ("dayOfWeekPattern" \in DOMAIN v) <=> (v.pattern = "weekly")

\* a weekly pattern reported for a series whose lag-30 strength is the larger one
C11_Witness ==
    /\ HasReturned(seasonality)
    /\ Len(series) >= 30
    /\ seasonality.value.detected
    /\ seasonality.value.pattern = "weekly"
    /\ "dayOfWeekPattern" \in DOMAIN seasonality.value
    /\ LET sorted == SortByDate(series)
           values == [i \in 1..Len(sorted) |-> ValueOf(sorted[i])]
       IN  RLt(checkPeriodicity(values, 7), checkPeriodicity(values, 30))

\* a monthly pattern: the lag-7 strength is at most 0.3, the lag-30 strength over 0.2
MonthlyReported ==
    /\ HasReturned(seasonality)
    /\ Len(series) >= 30
    /\ seasonality.value.detected
    /\ seasonality.value.pattern = "monthly"

\* C12: the strength checkPeriodicity returns is within [0,1] for every
\* series and lag >= 1, and is 0 when the series is constant or has no more
\* points than the lag.
C12_StrengthInUnitIntervalZeroWhenFlat ==
    HasReturned(periodicity) =>
        LET p == periodicity.value
            values == PeriodicityValues(series, p.unit)
        IN  /\ RLe(Num(0), p.strength)
            /\ RLe(p.strength, Num(1))
            /\ (IsConstant(values) \/ Len(values) <= p.lag) => p.strength = Num(0)

\* the part of C12 that holds: the strength is within [0,1], and 0 when the
\* series has no more points than the lag or is constant with an exact mean
StrengthInUnitInterval ==
    HasReturned(periodicity) =>
        LET p == periodicity.value
            values == PeriodicityValues(series, p.unit)
        IN  /\ RLe(Num(0), p.strength)
            /\ RLe(p.strength, Num(1))
            /\ Len(values) <= p.lag => p.strength = Num(0)
            /\ (IsConstant(values) /\ p.unit = 1) => p.strength = Num(0)

SeasonalityApplied ==
    /\ scenarioReq.route = "applySeasonality"
    /\ HasReturned(scenarioRes)

\* the factor C13 states for a day: the day's average over the mean of the
\* seven averages, the day's average being taken as it is (0 included)
StatedFactor(averages, dayOfWeek) ==
    IF OverallAvg(averages).n = 0 THEN Num(1)
    ELSE RDiv(averages[dayOfWeek + 1], OverallAvg(averages))

\* C13: applySeasonality with a weekly pattern multiplies predicted,
\* upper_bound and lower_bound of each point by dayAverage / overallAverage,
\* dayAverage being the average of the point's weekday (also when that average
\* is 0) and overallAverage the mean of the 7 weekday averages; the factor is 1
\* when no pattern is detected or overallAverage is 0.
C13_FactorIsDayOverOverall ==
    SeasonalityApplied =>
        LET seas == scenarioReq.seasonality
            out == scenarioRes.value.forecast
        IN  /\ Len(out) = Len(baseForecast)
            /\ \A i \in 1..Len(out) :
                 LET factor == IF NoPattern(seas) THEN Num(1)
                               ELSE StatedFactor(seas.dayOfWeekPattern.averages,
                                                 GetDay(baseForecast[i].date))
                 IN  /\ out[i].predicted = RMul(baseForecast[i].predicted, factor)
                     /\ out[i].upper_bound = RMul(baseForecast[i].upper_bound, factor)
                     /\ out[i].lower_bound = RMul(baseForecast[i].lower_bound, factor)

\* the same statement on the weekdays whose average is not 0: there the code
\* and C13 agree
FactorOnNonZeroDays ==
    SeasonalityApplied =>
        LET seas == scenarioReq.seasonality
            out == scenarioRes.value.forecast
        IN  /\ Len(out) = Len(baseForecast)
            /\ \A i \in 1..Len(out) :
                 LET zeroDay == /\ ~NoPattern(seas)
                                /\ seas.dayOfWeekPattern.averages[
                                       GetDay(baseForecast[i].date) + 1].n = 0
                                /\ OverallAvg(seas.dayOfWeekPattern.averages).n # 0
                     factor == IF NoPattern(seas) THEN Num(1)
                               ELSE StatedFactor(seas.dayOfWeekPattern.averages,
                                                 GetDay(baseForecast[i].date))
                 IN  ~zeroDay =>
                        /\ out[i].predicted = RMul(baseForecast[i].predicted, factor)
                        /\ out[i].upper_bound = RMul(baseForecast[i].upper_bound, factor)
                        /\ out[i].lower_bound = RMul(baseForecast[i].lower_bound, factor)

FormulaCalled(fn) == healthArgs.fn = fn /\ healthResult.called

ZeroOrMissing(x) == x = Num(0) \/ x = Absent

\* C14: the inventory formulas return their stated fallback, and no NaN,
\* infinity or exception, when the denominator is zero: calculateEOQ null
\* when any input is zero or missing, calculateTurnover 0 when
\* averageInventory is 0, calculateDIO 0 when costOfGoodsSold is 0,
\* calculateFillRate 1 when unitsOrdered is 0, calculateStockoutProbability 0
\* when demandStdDev is 0.
C14_ZeroDenominatorFallbacks ==
    /\ (FormulaCalled("calculateEOQ")
            /\ \E i \in 1..3 : ZeroOrMissing(healthArgs.args[i])) =>
          (HasReturned(healthResult) /\ healthResult.value = Null)
    /\ (FormulaCalled("calculateTurnover") /\ healthArgs.args[2] = Num(0)) =>
          (HasReturned(healthResult) /\ healthResult.value = Num(0))
    /\ (FormulaCalled("calculateDIO") /\ healthArgs.args[2] = Num(0)) =>
          (HasReturned(healthResult) /\ healthResult.value = Num(0))
    /\ (FormulaCalled("calculateFillRate") /\ healthArgs.args[2] = Num(0)) =>
          (HasReturned(healthResult) /\ healthResult.value = Num(1))
    /\ (FormulaCalled("calculateStockoutProbability") /\ healthArgs.args[3] = Num(0)) =>
          (HasReturned(healthResult) /\ healthResult.value = Num(0))

\* calculateFillRate(0, 0) has returned 1
C14_Witness ==
    /\ FormulaCalled("calculateFillRate")
    /\ healthArgs.args = <<Num(0), Num(0)>>
    /\ HasReturned(healthResult)
    /\ healthResult.value = Num(1)

InUnitInterval(x) == IsNum(x) /\ RLe(Num(0), x) /\ RLe(x, Num(1))

MetricsReturned == healthArgs.fn = "calculateHealthMetrics" /\ HasReturned(healthResult)

\* C15: calculateStockoutProbability returns a value within [0,1] for all
\* non-negative averageDemand, safetyStock and demandStdDev, and so the
\* stockout_probability of every health metric row is within [0,1].
C15_StockoutProbabilityInUnitInterval ==
    /\ (FormulaCalled("calculateStockoutProbability")
            /\ \A i \in 1..3 : IsNum(healthArgs.args[i]) /\ healthArgs.args[i].n >= 0) =>
          (HasReturned(healthResult) /\ InUnitInterval(healthResult.value))
    /\ MetricsReturned =>
          \A i \in 1..Len(healthResult.value) :
              InUnitInterval(healthResult.value[i].stockout_probability)

\* a metric row of a product with varying demand: its probability is
\* strictly between 0 and 1
C15_Witness ==
    /\ MetricsReturned
    /\ \E i \in 1..Len(healthResult.value) :
         /\ healthResult.value[i].demand_std_dev.n > 0
         /\ RLt(Num(0), healthResult.value[i].stockout_probability)
         /\ RLt(healthResult.value[i].stockout_probability, Num(1))

\* the fields C16 lists for a product without matching sales
EmptyRow(row) ==
    /\ row.daily_demand = Num(0)
    /\ row.demand_std_dev = Num(0)
    /\ row.safety_stock = Num(0)
    /\ row.reorder_point = Num(0)
    /\ row.stockout_probability = Num(0)
    /\ row.forecast_accuracy = Null

\* C16: calculateHealthMetrics returns exactly one metric row per product,
\* in the order of the products list, for any sales data including an empty
\* list; with no matching sales the row has daily_demand 0, demand_std_dev 0,
\* safety_stock 0, reorder_point 0, stockout_probability 0 and
\* forecast_accuracy null.
C16_OneRowPerProduct ==
    FormulaCalled("calculateHealthMetrics") =>
        /\ HasReturned(healthResult)
        /\ Len(healthResult.value) = Len(healthArgs.products)
        /\ \A i \in 1..Len(healthArgs.products) :
             /\ healthResult.value[i].product_id = healthArgs.products[i].id
             /\ ProductSales(healthArgs.products[i], healthArgs.salesData) = <<>> =>
                    EmptyRow(healthResult.value[i])

\* the same statement for the calls that return: it fails only by the
\* RangeError of a date that does not parse
OneRowPerProductIfReturned ==
    MetricsReturned =>
        /\ Len(healthResult.value) = Len(healthArgs.products)
        /\ \A i \in 1..Len(healthArgs.products) :
             /\ healthResult.value[i].product_id = healthArgs.products[i].id
             /\ ProductSales(healthArgs.products[i], healthArgs.salesData) = <<>> =>
                    EmptyRow(healthResult.value[i])

\* the attribution C17 states: by id, and by name only if the record's id
\* is no product's id
IdFirstSales(products, product, salesData) ==
    LET matches(s) ==
            \/ FieldOf(s, "product_id") = product.id
            \/ /\ FieldOf(s, "product_name") = product.name
               /\ \A k \in 1..Len(products) : FieldOf(s, "product_id") # products[k].id
    IN  SelectSeq(salesData, matches)

\* C17: an id match takes priority over a name match: a sales record whose
\* product_id is product X's id and whose product_name is another product
\* Y's name is counted in X's demand only, so every sales record contributes
\* to at most one product's metrics.
C17_IdMatchTakesPriority ==
    MetricsReturned =>
        \A i \in 1..Len(healthArgs.products) :
            healthResult.value[i] =
                HealthRow(healthArgs.products[i],
                          IdFirstSales(healthArgs.products, healthArgs.products[i],
                                       healthArgs.salesData),
                          healthArgs.forecast)

\* the actual records C18 speaks of: a positive value and a forecast point
\* of the same date
MatchedActuals(actual, forecast) ==
    {i \in 1..Len(actual) :
        /\ SalesValue(actual[i]) > 0
        /\ \E j \in 1..Len(forecast) : SameDate(actual[i], forecast[j])}

\* the mean of |actual - predicted| / actual over the matched records
MAPE(actual, forecast) ==
    RDiv(RSumSeq([i \in 1..Len(actual) |->
                    IF i \in MatchedActuals(actual, forecast)
                    THEN LET f == forecast[FindForecast(actual[i], forecast)]
                         IN  Rat(Abs(SalesValue(actual[i]) - f.predicted),
                                 SalesValue(actual[i]))
                    ELSE Num(0)]),
         Num(Cardinality(MatchedActuals(actual, forecast))))

WellFormedPoint(point) ==
    /\ RLe(point.lower_bound, point.predicted)
    /\ RLe(point.predicted, point.upper_bound)
    /\ RLe(Num(0), point.predicted)

ForecastProduced ==
    /\ scenarioReq.route \in {"/demand-shock", "/promotion", "applySeasonality",
                               "createFallbackForecast"}
    /\ HasReturned(scenarioRes)

\* C19: every forecast point produced by the demand-shock and promotion
\* scenarios, by applySeasonality and by the fallback forecast satisfies
\* upper_bound >= predicted >= lower_bound and predicted >= 0 whenever the
\* base forecast (or every historical sales value) does, for any multiplier
\* and duration the endpoints accept.
C19_ForecastPointsWellFormed ==
    (/\ ForecastProduced
     /\ \A i \in 1..Len(baseForecast) : WellFormedPoint(baseForecast[i])
     /\ scenarioReq.route = "createFallbackForecast" =>
            \A i \in 1..Len(scenarioReq.data) : HistoricalValue(scenarioReq.data[i]) >= 0) =>
        \A i \in 1..Len(scenarioRes.value.forecast) :
            WellFormedPoint(scenarioRes.value.forecast[i])

\* the same statement without the negative multipliers: it holds
WellFormedForNonNegativeMultiplier ==
    (/\ ForecastProduced
     /\ \A i \in 1..Len(baseForecast) : WellFormedPoint(baseForecast[i])
     /\ "multiplier" \in DOMAIN scenarioReq => RLe(Num(0), scenarioReq.multiplier)
     /\ "lift" \in DOMAIN scenarioReq => RLe(Num(0), scenarioReq.lift)) =>
        \A i \in 1..Len(scenarioRes.value.forecast) :
            WellFormedPoint(scenarioRes.value.forecast[i])

\* C20: applying classifyABC to its own output yields the same class for
\* every item and the same item order as the first application: the second
\* call returns, element by element, what the first call returned.
C20_ClassifyABCIdempotent ==
    [][(~reclassified.called /\ reclassified'.called) =>
            reclassified'.value = classified.value]_vars

\* a second application to an output with equal values in it and more than
\* one class
C20_Witness ==
    /\ reclassified.called
    /\ \E i, j \in 1..Len(reclassified.value) :
          /\ i < j
          /\ reclassified.value[i].annualValue = reclassified.value[j].annualValue
    /\ \E i, j \in 1..Len(reclassified.value) :
          reclassified.value[i].class # reclassified.value[j].class

TotalValue == SumSeq([i \in 1..Len(items) |-> items[i].annualValue])

\* C21: when the total value of the items given to classifyABC is 0, every
\* item is classified C and the call does not throw.
C21_ZeroTotalAllC ==
    (classified.called /\ TotalValue = 0) =>
        /\ HasReturned(classified)
        /\ \A k \in 1..Len(classified.value) : classified.value[k].class = "C"

\* a classified list of a total of 0 that holds a positive and a negative value
C21_Witness ==
    /\ HasReturned(classified)
    /\ TotalValue = 0
    /\ \E i, j \in 1..Len(items) : items[i].annualValue > 0 /\ items[j].annualValue < 0

PositiveItems ==
    /\ HasReturned(classified)
    /\ Len(items) > 0
    /\ \A i \in 1..Len(items) : items[i].annualValue > 0

SomeItemIsA == \E k \in 1..Len(classified.value) : classified.value[k].class = "A"

\* C22: for any non-empty list of items with positive values, classifyABC
\* assigns class A to at least one item.
C22_PositiveItemsHaveAnA == PositiveItems => SomeItemIsA

\* C22, as the code has it: for a non-empty list of items with positive
\* values, classifyABC assigns class A to at least one item exactly when the
\* largest value is at most 80% of the total; a single item is classified C.
C22_AnAIffLargestWithinEightyPercent ==
    PositiveItems =>
        (SomeItemIsA <=>
            \A i \in 1..Len(items) : 10 * items[i].annualValue <= 8 * TotalValue)

\* positive values, two items or more, an A among them
C22_Witness ==
    /\ PositiveItems
    /\ Len(items) >= 2
    /\ SomeItemIsA

\* a sales record of the call matches a product and has a date that does
\* not parse
UnparsableDateGiven ==
    \E i \in 1..Len(healthArgs.products) :
        LET productSales == ProductSales(healthArgs.products[i], healthArgs.salesData)
        IN  \E k \in 1..Len(productSales) :
               "date" \in DOMAIN productSales[k] /\ productSales[k].date = InvalidDate

\* C23: calculateHealthMetrics degrades per record instead of aborting: if
\* some sales records matching a product have an unparsable date or a
\* non-numeric sales value, those records are left out of the aggregation,
\* the call does not throw, and a metric row with a numeric daily_demand is
\* still returned for every product.
C23_DegradesPerRecord ==
    (FormulaCalled("calculateHealthMetrics") /\ UnparsableDateGiven) =>
        /\ HasReturned(healthResult)
        /\ Len(healthResult.value) = Len(healthArgs.products)
        /\ \A i \in 1..Len(healthArgs.products) : IsNum(healthResult.value[i].daily_demand)

\* C30: calculateDailyDemand returns a finite number >= 0 for every list of
\* sales records with non-negative numeric values, including a non-empty
\* list in which no record has a date; it never divides by a zero count of
\* distinct dates.  (The dates that are given parse.)
C30_DailyDemandFinite ==
    (/\ FormulaCalled("calculateDailyDemand")
     /\ \A i \in 1..Len(healthArgs.salesData) :
           "date" \in DOMAIN healthArgs.salesData[i] =>
                healthArgs.salesData[i].date # InvalidDate) =>
        /\ HasReturned(healthResult)
        /\ IsNum(healthResult.value)
        /\ RLe(Num(0), healthResult.value)

\* C29: a scenario run from the What-If panel reaches the server with a type
\* the server recognises: for the 'Demand Shock' and 'Promotion' tabs with a
\* slider value giving multiplier m > 1, the impact returned by
\* /api/scenarios/analyze has percentageChange = round((m-1)*100), not the
\* zero impact of an unknown type.
C29_PanelScenarioHasImpact ==
    (/\ scenarioReq.route = "runScenario"
     /\ HasReturned(scenarioRes)
     /\ scenarioRes.value.success
     /\ scenarioReq.tab \in {"demand", "promotion"}
     /\ scenarioReq.slider > 0) =>
        /\ scenarioRes.value.scenario.type \in {"demand_shock", "promotion"}
        /\ scenarioRes.value.impact.percentageChange = scenarioReq.slider

\* call c takes its first step: the cache lookup and what follows it
Started(c) == calls[c].pc = "new" /\ calls'[c].pc # "new"

Contains(message, text) == \E i \in 1..Len(message) : message[i] = text

\* C24: generateForecast called with an empty sales list (and no cache entry
\* for its key) fails with an error whose message contains 'No sales data',
\* without calling the AI provider and without adding or changing any
\* forecast cache entry.
C24_EmptySalesFailsBeforeAI ==
    [][\A c \in DOMAIN calls :
          (/\ Started(c)
           /\ calls[c].sales = "empty"
           /\ CacheKeyOf(c) # NoKey => ~forecastCache[CacheKeyOf(c)].present) =>
             /\ calls'[c].pc = "done"
             /\ HasThrown(calls'[c].outcome)
             /\ Contains(calls'[c].outcome.threw.message, "No sales data provided")
             /\ forecastCache' = forecastCache]_vars

\* a call with an empty sales list has failed, through a route and directly
C24_Witness ==
    /\ component = "forecast"
    /\ \A via \in {"route", "direct"} :
          \E c \in DOMAIN calls :
             /\ calls[c].via = via
             /\ calls[c].sales = "empty"
             /\ HasThrown(calls[c].outcome)
             /\ Contains(calls[c].outcome.threw.message, "No sales data provided")

\* C25: after any sequence of product create, bulk import, update and delete
\* requests, no two products in the catalog share the same id, and an update
\* never changes a product's id.
C25_UniqueIds ==
    \A i, j \in 1..Len(catalog) : i # j => catalog[i].id # catalog[j].id

\* the second half of C25 alone: it holds
UpdateKeepsId ==
    [][(productRes'.called /\ Len(catalog') = Len(catalog)) =>
            \A i \in 1..Len(catalog) : catalog'[i].id = catalog[i].id]_vars

\* an entry for the key exists that was stored less than one hour earlier
FreshEntry(k) ==
    forecastCache[k].present /\ now - forecastCache[k].timestamp < CacheTTL

\* the stored result is returned without a call of the AI provider
ReturnsStored(c) ==
    /\ calls'[c].pc = "done"
    /\ calls'[c].outcome = Returned(forecastCache[CacheKeyOf(c)].data)
    /\ forecastCache' = forecastCache

\* what the end of the AI call of c does to the cache
StoresOnSuccess(c) ==
    (calls[c].pc = "ai" /\ calls'[c].pc = "done") =>
        IF HasReturned(calls'[c].outcome)
        THEN forecastCache' =
                [forecastCache EXCEPT ![CacheKeyOf(c)] =
                    [present |-> TRUE, data |-> calls'[c].outcome.value, timestamp |-> now]]
        ELSE forecastCache' = forecastCache

C27_SessionForecastFromOwnSales ==
    \A k \in DOMAIN forecastSessions :
        forecastSessions[k].present =>
            forecastSessions[k].forecast.from = forecastSessions[k].salesData

\* the cache entry of a key always holds a result that was returned to some caller
CacheHoldsReturnedResult ==
    \A k \in DOMAIN forecastCache :
        forecastCache[k].present =>
            \E c \in DOMAIN calls : calls[c].outcome = Returned(forecastCache[k].data)

\* C28: two generateForecast calls with the same cacheKey issued within one
\* hour of each other return the same forecast result under every
\* interleaving, including when the second call starts before the first
\* call's AI request has completed; and the cache entry for that key always
\* holds a result that was returned to some caller.
C28_SameKeySameResult ==
    /\ \A c, d \in DOMAIN calls :
          (/\ CacheKeyOf(c) # NoKey
           /\ CacheKeyOf(c) = CacheKeyOf(d)
           /\ HasReturned(calls[c].outcome)
           /\ HasReturned(calls[d].outcome)
           /\ calls[c].startedAt - calls[d].startedAt < CacheTTL
           /\ calls[d].startedAt - calls[c].startedAt < CacheTTL) =>
                calls[c].outcome.value = calls[d].outcome.value
    /\ CacheHoldsReturnedResult

====
